---- MODULE Spec2Model ----
(***************************************************************************)
(* Voice assistant of shop-sahai: the two conversation flows (borrow and   *)
(* purchase) of src/components/VoiceAssistant.tsx, their confirmation      *)
(* forms, and the event protocol that hands a confirmed record to the      *)
(* persistence component (add-borrow / add-borrow-result, add-purchase /   *)
(* add-purchase-result).                                                   *)
(*                                                                         *)
(* Strings are sequences of one-character strings, so that the regular     *)
(* expression tests, trim() and parseInt() of the source are computed on   *)
(* the text and not assumed.  A character outside ASCII is written as its  *)
(* code point ("u0D35").  The empty string is << >>.                       *)
(***************************************************************************)
EXTENDS Integers, Sequences, FiniteSets

(***************************************************************************)
(* Bounds of the model.                                                    *)
(***************************************************************************)
\* requests of one kind that may wait for their result at the same time
MaxOutstanding == 2
\* generic commands that may be processed at the same time
MaxCommands == 1
\* transcripts handled in one session
MaxHeard == 8
\* transcripts handled in a session of two flows
MaxHeardLong == 9

(***************************************************************************)
(* Text.                                                                   *)
(***************************************************************************)
Upper == <<"A","B","C","D","E","F","G","H","I","J","K","L","M",
           "N","O","P","Q","R","S","T","U","V","W","X","Y","Z">>
LowerOf == <<"a","b","c","d","e","f","g","h","i","j","k","l","m",
             "n","o","p","q","r","s","t","u","v","w","x","y","z">>

\* the /i flag: letters compare without case
Lower(c) == IF \E k \in 1..26 : Upper[k] = c
            THEN LowerOf[CHOOSE k \in 1..26 : Upper[k] = c]
            ELSE c

LowerStr(s) == [k \in 1..Len(s) |-> Lower(s[k])]

\* p occurs in s as a substring
Contains(s, p) ==
    \E k \in 1..(Len(s) - Len(p) + 1) : SubSeq(s, k, k + Len(p) - 1) = p

\* /alt1|alt2|.../i.test(s)
RegexTest(alts, s) == LET ls == LowerStr(s) IN \E p \in alts : Contains(ls, p)

Digits == <<"0","1","2","3","4","5","6","7","8","9">>
IsDigit(c) == \E k \in 1..10 : Digits[k] = c
DigitVal(c) == (CHOOSE k \in 1..10 : Digits[k] = c) - 1

\* a match that takes the last run of digits
DigitMatchLast(s) ==
    IF \E k \in 1..Len(s) : IsDigit(s[k])
    THEN LET last  == CHOOSE k \in 1..Len(s) :
                          /\ IsDigit(s[k])
                          /\ \A j \in (k+1)..Len(s) : ~IsDigit(s[j])
             first == CHOOSE k \in 1..last :
                          /\ \A j \in k..last : IsDigit(s[j])
                          /\ (k = 1 \/ ~IsDigit(s[k-1]))
         IN  SubSeq(s, first, last)
    ELSE << >>

\* s.match(/\d+/): the first maximal run of digits, << >> when there is none
DigitMatch(s) ==
    IF \E k \in 1..Len(s) : IsDigit(s[k])
    THEN LET first == CHOOSE k \in 1..Len(s) :
                          /\ IsDigit(s[k])
                          /\ \A j \in 1..(k-1) : ~IsDigit(s[j])
             last  == CHOOSE k \in first..Len(s) :
                          /\ \A j \in first..k : IsDigit(s[j])
                          /\ (k = Len(s) \/ ~IsDigit(s[k+1]))
         IN  SubSeq(s, first, last)
    ELSE << >>

\* parseInt of a run of digits
RECURSIVE ParseInt(_)
ParseInt(d) == IF d = << >> THEN 0
               ELSE 10 * ParseInt(SubSeq(d, 1, Len(d) - 1)) + DigitVal(d[Len(d)])

\* Number.prototype.toString of a non-negative integer
RECURSIVE IntToString(_)
IntToString(n) == IF n < 10 THEN << Digits[n + 1] >>
               ELSE IntToString(n \div 10) \o << Digits[(n % 10) + 1] >>

\* String.prototype.trim (blanks are the only white space of the inputs)
RECURSIVE TrimLeft(_)
TrimLeft(s) == IF s # << >> /\ s[1] = " " THEN TrimLeft(Tail(s)) ELSE s
RECURSIVE TrimRight(_)
TrimRight(s) == IF s # << >> /\ s[Len(s)] = " "
                THEN TrimRight(SubSeq(s, 1, Len(s) - 1)) ELSE s
Trim(s) == TrimRight(TrimLeft(s))

\* isNaN(Number(s)) for text over digits, letters, blank and sign: Number
\* trims, reads the empty text as 0 and an optionally signed run of digits
\* as its value, and gives NaN for anything else
IsNaNNumber(s) ==
    LET t == Trim(s)
        body == IF t # << >> /\ t[1] \in {"+", "-"} THEN Tail(t) ELSE t
    IN  /\ t # << >>
        /\ \/ body = << >>
           \/ \E k \in 1..Len(body) : ~IsDigit(body[k])

\* split on blanks, empty words dropped
RECURSIVE Words(_)
Words(s) ==
    LET t == TrimLeft(s)
    IN  IF t = << >> THEN << >>
        ELSE LET n == IF \E k \in 1..Len(t) : t[k] = " "
                      THEN (CHOOSE k \in 1..Len(t) :
                               t[k] = " " /\ \A j \in 1..(k-1) : t[j] # " ") - 1
                      ELSE Len(t)
             IN  << SubSeq(t, 1, n) >> \o Words(SubSeq(t, n + 1, Len(t)))

(***************************************************************************)
(* Vocabularies (the regular expressions of the component).                *)
(***************************************************************************)
AffirmativePattern ==
  {<<"y","e","s">>, <<"s","a","v","e">>, <<"o","k","a","y">>,
   <<"c","o","n","f","i","r","m">>,
   <<"u0D36","u0D30","u0D3F">>,
   <<"u0D38","u0D47","u0D35","u0D4D">>,
   <<"u0D09","u0D23","u0D4D","u0D1F","u0D4D">>}

NegativePattern ==
  {<<"n","o">>, <<"c","h","a","n","g","e">>, <<"b","a","c","k">>,
   <<"u0D35","u0D47","u0D23","u0D4D","u0D1F">>,
   <<"u0D2E","u0D3E","u0D31","u0D4D","u0D31","u0D02">>,
   <<"u0D24","u0D3F","u0D30","u0D3F","u0D1A","u0D4D","u0D1A","u0D4D">>}

ResetPattern ==
  {<<"c","l","e","a","r">>, <<"r","e","s","e","t">>,
   <<"u0D35","u0D4D","u0D2F","u0D15","u0D4D","u0D24","u0D02">>,
   <<"u0D31","u0D40","u0D38","u0D46","u0D31","u0D4D","u0D31","u0D4D">>}

CancelPattern ==
  {<<"c","a","n","c","e","l">>, <<"e","x","i","t">>, <<"s","t","o","p">>,
   <<"u0D35","u0D47","u0D23","u0D4D","u0D1F">>,
   <<"u0D2A","u0D41","u0D31","u0D24","u0D4D","u0D24","u0D4D">>}

PurchaseKeyword ==
  {<<"p","u","r","c","h","a","s","e">>, <<"b","u","y">>,
   <<"u0D35","u0D3E","u0D19","u0D4D","u0D19","u0D7D">>,
   <<"u0D35","u0D3E","u0D19","u0D4D","u0D19","u0D3F">>}

BorrowKeyword ==
  {<<"b","o","r","r","o","w">>, <<"u0D15","u0D1F","u0D02">>}

UnknownSupplierPattern ==
  {<<"u","n","k","n","o","w","n">>, <<"b","l","a","n","k">>,
   <<"s","u","p","p","l","i","e","r">>, <<"p","e","r","s","o","n">>,
   <<"u0D05","u0D1C","u0D4D","u0D1E","u0D3E","u0D24">>}

(***************************************************************************)
(* The number-word parser of services/voiceCommandService, as the design   *)
(* describes it (word-number parsing; the digit fallback is in the reply   *)
(* handlers).  Its result is a non-negative integer, or NoNumber (null)    *)
(* when the text holds no number word.                                     *)
(***************************************************************************)
NoNumber == -1

UnitWords ==
  [w \in {<<"z","e","r","o">>, <<"o","n","e">>, <<"t","w","o">>,
          <<"t","h","r","e","e">>, <<"f","o","u","r">>, <<"f","i","v","e">>,
          <<"s","i","x">>, <<"s","e","v","e","n">>, <<"e","i","g","h","t">>,
          <<"n","i","n","e">>} |->
     CASE w = <<"z","e","r","o">> -> 0
       [] w = <<"o","n","e">> -> 1
       [] w = <<"t","w","o">> -> 2
       [] w = <<"t","h","r","e","e">> -> 3
       [] w = <<"f","o","u","r">> -> 4
       [] w = <<"f","i","v","e">> -> 5
       [] w = <<"s","i","x">> -> 6
       [] w = <<"s","e","v","e","n">> -> 7
       [] w = <<"e","i","g","h","t">> -> 8
       [] w = <<"n","i","n","e">> -> 9]

\* the words for the tens ("twenty five" is 25)
TensWords ==
  [w \in {<<"t","e","n">>, <<"t","w","e","n","t","y">>, <<"t","h","i","r","t","y">>,
          <<"f","o","r","t","y">>, <<"f","i","f","t","y">>, <<"s","i","x","t","y">>,
          <<"s","e","v","e","n","t","y">>, <<"e","i","g","h","t","y">>,
          <<"n","i","n","e","t","y">>} |->
     CASE w = <<"t","e","n">> -> 10
       [] w = <<"t","w","e","n","t","y">> -> 20
       [] w = <<"t","h","i","r","t","y">> -> 30
       [] w = <<"f","o","r","t","y">> -> 40
       [] w = <<"f","i","f","t","y">> -> 50
       [] w = <<"s","i","x","t","y">> -> 60
       [] w = <<"s","e","v","e","n","t","y">> -> 70
       [] w = <<"e","i","g","h","t","y">> -> 80
       [] w = <<"n","i","n","e","t","y">> -> 90]

HundredWord == <<"h","u","n","d","r","e","d">>
ThousandWord == <<"t","h","o","u","s","a","n","d">>
\* the Malayalam scale words: nooru (hundred), aayiram (thousand)
MalayalamHundredWord == <<"u0D28","u0D42","u0D31","u0D4D">>
MalayalamThousandWord == <<"u0D06","u0D2F","u0D3F","u0D30","u0D02">>

IsHundred(w) == w = HundredWord \/ w = MalayalamHundredWord
IsThousand(w) == w = ThousandWord \/ w = MalayalamThousandWord

IsNumberWord(w) ==
    w \in DOMAIN UnitWords \/ w \in DOMAIN TensWords \/ IsHundred(w) \/ IsThousand(w)

\* short-scale composition over the words ws: total is the folded part,
\* current the part still open to a scale word
RECURSIVE Compose(_, _, _)
Compose(ws, total, current) ==
    IF ws = << >> THEN total + current
    ELSE LET w == Head(ws)  rest == Tail(ws)
         IN  IF w \in DOMAIN UnitWords
               THEN Compose(rest, total, current + UnitWords[w])
             ELSE IF w \in DOMAIN TensWords
               THEN Compose(rest, total, current + TensWords[w])
             ELSE IF IsHundred(w)
               THEN Compose(rest, total, (IF current = 0 THEN 1 ELSE current) * 100)
             ELSE IF IsThousand(w)
               THEN Compose(rest, total + (IF current = 0 THEN 1 ELSE current) * 1000, 0)
             ELSE Compose(rest, total, current)

universalNumberParser(s) ==
    LET ws == Words(LowerStr(s))
    IN  IF \E k \in 1..Len(ws) : IsNumberWord(ws[k])
        THEN Compose(ws, 0, 0)
        ELSE NoNumber

(***************************************************************************)
(* State of the VoiceAssistant component.                                  *)
(***************************************************************************)
VARIABLES
    borrowState,          \* [step, name, amount, paid]
    purchaseState,        \* [step, supplier, amount, paid]
    borrowConfirmEdit,    \* << >> (null) or << the editable copy >>
    purchaseConfirmEdit,  \* << >> (null) or << the editable copy >>
    isSaving,             \* one flag for both Save buttons
    isProcessing,         \* a generic command is being processed
    response,             \* the message shown (its identity, not its wording)
    saveListeners,        \* handleSaveResult listeners on the window, per result event
    requests,             \* add-borrow / add-purchase events whose result is still to come
    commands,             \* generic commands in processing
    heard,                \* transcripts handled so far
    ev,                   \* the event handled last
    isSpeaking,           \* the flag speak sets and the done callback of a prompt clears
    speaking,             \* << >> or << what the done callback of the prompt played will do >>
    cooldownRef,          \* the auto-listen timer is armed
    isListening,          \* the speech recognition is capturing
    micError,             \* the text under the voice button
    pending,              \* transcripts in their debounce delay, with the render that took them
    app,                  \* the state of App: user, session, loading
    auth,                 \* the authentication client: the getSession promise, the events notified
    browser,              \* the location, and the page modules loaded so far
    incomeExpense,        \* the state of IncomeExpense
    supabase              \* the transactions table and the calls to it that are in flight

vars == << borrowState, purchaseState, borrowConfirmEdit, purchaseConfirmEdit,
           isSaving, isProcessing, response, saveListeners, requests,
           commands, heard, ev, isSpeaking, speaking, cooldownRef, isListening,
           micError, pending, app, auth, browser, incomeExpense, supabase >>

\* the state of the voice assistant but the event handled last, which App
\* and IncomeExpense do not touch
assistantVars == << borrowState, purchaseState, borrowConfirmEdit, purchaseConfirmEdit,
                    isSaving, isProcessing, response, saveListeners, requests,
                    commands, heard, isSpeaking, speaking, cooldownRef, isListening,
                    micError, pending >>

\* the state of App and of IncomeExpense, which the voice assistant does
\* not touch
pageVars == << app, auth, browser, incomeExpense, supabase >>

\* the state of the microphone and of the debounce, which the handlers of
\* the engines do not touch
micVars == << cooldownRef, isListening, micError, pending >>

Null == << >>
EmptyStr == << >>

Event(type, eng, text, ok) == [type |-> type, eng |-> eng, text |-> text, ok |-> ok]

(***************************************************************************)
(* Inputs: what the user may say, and what may be typed into the fields of *)
(* a confirmation form.                                                    *)
(***************************************************************************)
Utterances ==
  { <<"b","o","r","r","o","w">>,
    <<"b","u","y">>,
    <<"R","a","v","i">>,
    <<"5","0","0">>,
    <<"y","e","s">>,
    <<"n","o">>,
    <<"r","e","s","e","t">>,
    <<"c","a","n","c","e","l">> }

\* a session in which amounts are answered in several ways: digits, number
\* words, zero, and a sentence without a number
UtterancesFlow ==
  { <<"b","o","r","r","o","w">>,
    <<"b","u","y">>,
    <<"R","a","v","i">>,
    <<"5","0","0">>,
    <<"0">>,
    <<"t","w","o"," ","h","u","n","d","r","e","d">> }

\* a session with words that belong to more than one vocabulary: the
\* Malayalam word of the negative and of the cancel vocabulary, a sentence
\* with an affirmative and a cancel word, and one with both start keywords
UtterancesWords ==
  { <<"b","o","r","r","o","w">>,
    <<"b","u","y">>,
    <<"b","o","r","r","o","w"," ","t","o"," ","b","u","y">>,
    <<"5","0","0">>,
    <<"n","o">>,
    <<"r","e","s","e","t">>,
    <<"u0D35","u0D47","u0D23","u0D4D","u0D1F">>,
    <<"o","k","a","y"," ","c","a","n","c","e","l">> }

\* a session of two flows, one after the other
UtterancesLong ==
  { <<"b","o","r","r","o","w">>,
    <<"b","u","y">>,
    <<"5","0","0">>,
    <<"c","a","n","c","e","l">> }

\* replies to the quantity questions: number words, digit runs among other words
UtterancesNumbers ==
  { <<"b","o","r","r","o","w">>,
    <<"b","u","y">>,
    <<"t","w","o"," ","t","h","o","u","s","a","n","d"," ","f","i","v","e"," ",
      "h","u","n","d","r","e","d">>,
    MalayalamThousandWord,
    <<"z","e","r","o">>,
    <<"a","r","o","u","n","d"," ","7","5","0"," ","o","n","l","y">>,
    <<"7"," ","o","r"," ","8","0","0">>,
    <<"0"," ","o","r"," ","5">> }

\* a session that ends at a confirmation form whose fields are typed over
UtterancesForm ==
  { <<"b","o","r","r","o","w">>,
    <<"b","u","y">>,
    <<"R","a","v","i">>,
    <<"5","0","0">>,
    <<"y","e","s">> }

\* replies to "Should I save?": a refusal that holds a word of the
\* affirmative vocabulary, and a plain one
UtterancesReplies ==
  { <<"b","o","r","r","o","w">>,
    <<"b","u","y">>,
    <<"5","0","0">>,
    <<"d","o"," ","n","o","t"," ","s","a","v","e">>,
    <<"n","o">> }

AllUtterances ==
    Utterances \cup UtterancesFlow \cup UtterancesWords \cup UtterancesLong
        \cup UtterancesNumbers \cup UtterancesForm \cup UtterancesReplies

EditNames == { EmptyStr }
EditAmounts == { <<"0">> }
EditPaids == { EmptyStr }

\* what is typed into a form in the session of UtterancesForm: a name with a
\* leading blank, a name the purchase form does not take, a zero amount and
\* a blank paid field
FormNames == { <<" ","R","a","v","i">>, <<"u","n","k","n","o","w","n">> }
FormAmounts == { <<"0">> }
FormPaids == { EmptyStr }

\* RegexTest of every vocabulary on every text of the model, computed once
Texts == AllUtterances \cup EditNames \cup FormNames
Patterns == { AffirmativePattern, NegativePattern, ResetPattern, CancelPattern,
              PurchaseKeyword, BorrowKeyword, UnknownSupplierPattern }
Test == [alts \in Patterns, s \in Texts |-> RegexTest(alts, s)]

\* the sessions the authentication client may report, and their users
NoSession == "null"
Sessions == { "s1", "s2", "s3" }
UserOf(session) ==
    IF session = NoSession THEN "null"
    ELSE IF session = "s3" THEN "u2" ELSE "u1"

\* PAGE_SIZE, which is 20 in the source
PageSize == 2

\* the rows of the transactions table when IncomeExpense is mounted, the
\* newest first (the order of the queries); a row is its id
InitialRows == 3

\* a call to the table that is in flight, with what its continuation holds
\* of the render that made it
Call(op, page, reset, after, transactions) ==
    [op |-> op, page |-> page, reset |-> reset, after |-> after,
     transactions |-> transactions]

Init ==
    /\ borrowState = [step |-> "idle", name |-> EmptyStr, amount |-> EmptyStr, paid |-> EmptyStr]
    /\ purchaseState = [step |-> "idle", supplier |-> EmptyStr, amount |-> EmptyStr, paid |-> EmptyStr]
    /\ borrowConfirmEdit = Null
    /\ purchaseConfirmEdit = Null
    /\ isSaving = FALSE
    /\ isProcessing = FALSE
    /\ response = "None"
    /\ saveListeners = [borrow |-> 0, purchase |-> 0]
    /\ requests = [borrow |-> << >>, purchase |-> << >>]
    /\ commands = 0
    /\ heard = 0
    /\ ev = Event("init", "none", EmptyStr, FALSE)
    /\ isSpeaking = FALSE
    /\ speaking = << >>
    /\ cooldownRef = FALSE
    /\ isListening = FALSE
    /\ micError = "None"
    /\ pending = {}
    /\ app = [user |-> "null", session |-> NoSession, loading |-> TRUE]
    /\ auth = [getSession |-> "pending", events |-> 0]
    /\ browser = [path |-> "/", loaded |-> {}]
    /\ incomeExpense = [transactions |-> << >>, loading |-> TRUE, isSubmitting |-> FALSE,
                        page |-> 1, hasMore |-> TRUE]
    /\ supabase = [table |-> [k \in 1..InitialRows |-> InitialRows + 1 - k],
                   calls |-> << Call("select", 1, TRUE, "none", << >>) >>,
                   ops |-> 0]

(***************************************************************************)
(* Renders and prompts.  A handler is a closure of one render of the       *)
(* component: what it reads of the state is what that render saw; only     *)
(* the functional updates (setX(s => ...)) read the state of the time      *)
(* they run.                                                               *)
(***************************************************************************)
\* the render of the current state
Render ==
    [borrowState |-> borrowState, purchaseState |-> purchaseState,
     borrowConfirmEdit |-> borrowConfirmEdit,
     purchaseConfirmEdit |-> purchaseConfirmEdit,
     isSpeaking |-> isSpeaking, isListening |-> isListening]

\* what autoListen of a render does when it is called: it arms the cooldown
\* timer ("listen") or nothing ("none")
autoListen(render) ==
    IF /\ ~render.isListening /\ ~render.isSpeaking
       /\ render.borrowState.step # "done" /\ render.purchaseState.step # "done"
    THEN "listen" ELSE "none"

\* speak(text, onDone): the prompt replaces the one being played
speak(onDone) ==
    /\ isSpeaking' = TRUE
    /\ speaking' = << onDone >>

(***************************************************************************)
(* Borrow flow.                                                            *)
(***************************************************************************)
resetBorrowConversation ==
    [step |-> "idle", name |-> EmptyStr, amount |-> EmptyStr, paid |-> EmptyStr]

\* a start that takes the flow past its first question
startBorrowConversationAtAmount(render) ==
    /\ borrowState' = [step |-> "askAmount", name |-> EmptyStr, amount |-> EmptyStr, paid |-> EmptyStr]
    /\ response' = "BorrowAskAmount"
    /\ speak(autoListen(render))
    /\ UNCHANGED << purchaseState, borrowConfirmEdit, purchaseConfirmEdit,
                    isSaving, isProcessing, saveListeners, requests, commands >>

startBorrowConversation(render) ==
    /\ borrowState' = [step |-> "askName", name |-> EmptyStr, amount |-> EmptyStr, paid |-> EmptyStr]
    /\ response' = "BorrowAskName"
    /\ speak(autoListen(render))
    /\ UNCHANGED << purchaseState, borrowConfirmEdit, purchaseConfirmEdit,
                    isSaving, isProcessing, saveListeners, requests, commands >>

\* an amount rule that lets a zero through
ParsedAmountOrZero(transcript) ==
    LET parsedAmount == universalNumberParser(transcript)
        digitMatch == DigitMatch(transcript)
    IN  IF parsedAmount # NoNumber /\ parsedAmount > 0 THEN IntToString(parsedAmount)
        ELSE IF digitMatch # << >> /\ ParseInt(digitMatch) >= 0 THEN digitMatch
        ELSE EmptyStr

\* the amount stored at askAmount, << >> when the reply is refused
ParsedAmount(transcript) ==
    LET parsedAmount == universalNumberParser(transcript)
        digitMatch == DigitMatch(transcript)
    IN  IF parsedAmount # NoNumber /\ parsedAmount > 0 THEN IntToString(parsedAmount)
        ELSE IF digitMatch # << >> /\ ParseInt(digitMatch) > 0 THEN digitMatch
        ELSE EmptyStr

\* a paid rule that keeps the reply when it holds no number
ParsedPaidRaw(transcript) ==
    LET parsedPaid == universalNumberParser(transcript)
        digitMatch == DigitMatch(transcript)
    IN  IF parsedPaid # NoNumber /\ parsedPaid >= 0 THEN IntToString(parsedPaid)
        ELSE IF digitMatch # << >> /\ ParseInt(digitMatch) >= 0 THEN digitMatch
        ELSE transcript

\* the paid amount stored at askPaid
ParsedPaid(transcript) ==
    LET parsedPaid == universalNumberParser(transcript)
        digitMatch == DigitMatch(transcript)
    IN  IF parsedPaid # NoNumber /\ parsedPaid >= 0 THEN IntToString(parsedPaid)
        ELSE IF digitMatch # << >> /\ ParseInt(digitMatch) >= 0 THEN digitMatch
        ELSE <<"0">>

\* an amount rule that reads digit runs only
AmountOfDigitRuns ==
    [s \in AllUtterances |->
        IF DigitMatch(s) # << >> /\ ParseInt(DigitMatch(s)) > 0 THEN DigitMatch(s)
        ELSE EmptyStr]
\* ParsedAmount of every utterance, computed once
AmountOf == [s \in AllUtterances |-> ParsedAmount(s)]
\* the paid slot filled by the rule of the amount slot
PaidOfAmountRule == [s \in AllUtterances |-> ParsedAmount(s)]
\* ParsedPaid of every utterance, computed once
PaidOf == [s \in AllUtterances |-> ParsedPaid(s)]

\* the detail of a request: paid || '0'
PaidOrZero(paid) == IF paid = EmptyStr THEN <<"0">> ELSE paid

Request(name, total, paid, cancelable) ==
    [name |-> name, total |-> total, paid |-> PaidOrZero(paid), cancelable |-> cancelable]

handleBorrowReply(render, transcript) ==
    /\ UNCHANGED << purchaseState, purchaseConfirmEdit, isSaving, isProcessing,
                    saveListeners, commands >>
    /\ CASE render.borrowState.step = "askName" ->
              /\ borrowState' = [borrowState EXCEPT !.name = transcript, !.step = "askAmount"]
              /\ response' = "BorrowAskAmount"
              /\ speak(autoListen(render))
              /\ UNCHANGED << borrowConfirmEdit, requests >>
         [] render.borrowState.step = "askAmount" ->
              LET amount == AmountOf[transcript]
              IN  IF amount = EmptyStr
                  THEN /\ response' = "AmountNotUnderstood"
                       /\ speak(autoListen(render))
                       /\ UNCHANGED << borrowState, borrowConfirmEdit, requests >>
                  ELSE /\ borrowState' = [borrowState EXCEPT !.amount = amount, !.step = "askPaid"]
                       /\ response' = "BorrowAskPaid"
                       /\ speak(autoListen(render))
                       /\ UNCHANGED << borrowConfirmEdit, requests >>
         [] render.borrowState.step = "askPaid" ->
              LET newState == [render.borrowState EXCEPT !.paid = PaidOf[transcript], !.step = "confirm"]
              IN  /\ borrowState' = newState
                  /\ borrowConfirmEdit' = << newState >>
                  /\ response' = "BorrowShouldISave"
                  /\ speak(autoListen(render))
                  /\ UNCHANGED requests
         [] render.borrowState.step = "confirm" ->
              IF Test[AffirmativePattern, transcript]
              THEN LET data == IF render.borrowConfirmEdit # Null THEN render.borrowConfirmEdit[1]
                               ELSE render.borrowState
                   IN  IF data.name = EmptyStr \/ data.amount = EmptyStr \/ data.amount = <<"0">>
                       THEN /\ response' = "BorrowMissingInformation"
                            /\ speak(autoListen(render))
                            /\ UNCHANGED << borrowState, borrowConfirmEdit, requests >>
                       ELSE /\ Len(requests.borrow) < MaxOutstanding
                            /\ requests' = [requests EXCEPT !.borrow =
                                   Append(@, Request(data.name, data.amount, data.paid, FALSE))]
                            /\ borrowState' = [borrowState EXCEPT !.step = "done"]
                            /\ borrowConfirmEdit' = Null
                            /\ response' = "RecordAdded"
                            /\ speak("none")
              ELSE IF Test[NegativePattern, transcript]
              THEN /\ borrowState' = [borrowState EXCEPT !.step = "askAmount"]
                   /\ borrowConfirmEdit' = Null
                   /\ response' = "BorrowChangeAmount"
                   /\ speak(autoListen(render))
                   /\ UNCHANGED requests
              ELSE /\ response' = "SayYesOrNo"
                   /\ speak(autoListen(render))
                   /\ UNCHANGED << borrowState, borrowConfirmEdit, requests >>
         [] OTHER ->
              UNCHANGED << borrowState, borrowConfirmEdit, response, requests,
                            isSpeaking, speaking >>

\* a test that knows the reset words only
BorrowQuickCommandResetOnly(transcript) ==
    Test[ResetPattern, transcript]

\* the commands heard at every step of a running borrow flow
BorrowQuickCommand(transcript) ==
    Test[ResetPattern, transcript] \/ Test[CancelPattern, transcript]

\* a reset that goes back to the first question with the slots as they are
handleQuickCommandsKeepingSlots(render, transcript) ==
    /\ IF Test[ResetPattern, transcript]
       THEN /\ borrowState' = [borrowState EXCEPT !.step = "askName"]
            /\ response' = "BorrowFormCleared"
            /\ speak(autoListen(render))
       ELSE /\ borrowState' = resetBorrowConversation
            /\ response' = "Cancelled"
            /\ speak("none")
    /\ UNCHANGED << purchaseState, borrowConfirmEdit, purchaseConfirmEdit,
                    isSaving, isProcessing, saveListeners, requests, commands >>

handleQuickCommands(render, transcript) ==
    /\ IF Test[ResetPattern, transcript]
       THEN /\ borrowState' = [resetBorrowConversation EXCEPT !.step = "askName"]
            /\ response' = "BorrowFormCleared"
            /\ speak(autoListen(render))
       ELSE /\ borrowState' = resetBorrowConversation
            /\ response' = "Cancelled"
            /\ speak("none")
    /\ UNCHANGED << purchaseState, borrowConfirmEdit, purchaseConfirmEdit,
                    isSaving, isProcessing, saveListeners, requests, commands >>

(***************************************************************************)
(* Purchase flow.                                                          *)
(***************************************************************************)
resetPurchaseConversation ==
    [step |-> "idle", supplier |-> EmptyStr, amount |-> EmptyStr, paid |-> EmptyStr]

startPurchaseConversation(render) ==
    /\ purchaseState' = [step |-> "askSupplier", supplier |-> EmptyStr, amount |-> EmptyStr, paid |-> EmptyStr]
    /\ response' = "PurchaseAskSupplier"
    /\ speak(autoListen(render))
    /\ UNCHANGED << borrowState, borrowConfirmEdit, purchaseConfirmEdit,
                    isSaving, isProcessing, saveListeners, requests, commands >>

\* a confirm step that takes every reply without an affirmative word as a
\* request to change the amount
handlePurchaseReplyYesOrElse(render, transcript) ==
    /\ UNCHANGED << borrowState, borrowConfirmEdit, isSaving, isProcessing,
                    saveListeners, commands >>
    /\ CASE render.purchaseState.step = "askSupplier" ->
              /\ purchaseState' = [purchaseState EXCEPT !.supplier = transcript, !.step = "askAmount"]
              /\ response' = "PurchaseAskAmount"
              /\ speak(autoListen(render))
              /\ UNCHANGED << purchaseConfirmEdit, requests >>
         [] render.purchaseState.step = "askAmount" ->
              LET amount == AmountOf[transcript]
              IN  IF amount = EmptyStr
                  THEN /\ response' = "AmountNotUnderstood"
                       /\ speak(autoListen(render))
                       /\ UNCHANGED << purchaseState, purchaseConfirmEdit, requests >>
                  ELSE /\ purchaseState' = [purchaseState EXCEPT !.amount = amount, !.step = "askPaid"]
                       /\ response' = "PurchaseAskPaid"
                       /\ speak(autoListen(render))
                       /\ UNCHANGED << purchaseConfirmEdit, requests >>
         [] render.purchaseState.step = "askPaid" ->
              LET newState == [render.purchaseState EXCEPT !.paid = PaidOf[transcript], !.step = "confirm"]
              IN  /\ purchaseState' = newState
                  /\ purchaseConfirmEdit' = << newState >>
                  /\ response' = "PurchaseShouldISave"
                  /\ speak(autoListen(render))
                  /\ UNCHANGED requests
         [] render.purchaseState.step = "confirm" ->
              IF Test[AffirmativePattern, transcript]
              THEN LET data == IF render.purchaseConfirmEdit # Null THEN render.purchaseConfirmEdit[1]
                               ELSE render.purchaseState
                   IN  IF data.supplier = EmptyStr \/ data.amount = EmptyStr \/ data.amount = <<"0">>
                       THEN /\ response' = "PurchaseMissingInformation"
                            /\ speak(autoListen(render))
                            /\ UNCHANGED << purchaseState, purchaseConfirmEdit, requests >>
                       ELSE /\ Len(requests.purchase) < MaxOutstanding
                            /\ requests' = [requests EXCEPT !.purchase =
                                   Append(@, Request(data.supplier, data.amount, data.paid, FALSE))]
                            /\ purchaseState' = [purchaseState EXCEPT !.step = "done"]
                            /\ purchaseConfirmEdit' = Null
                            /\ response' = "PurchaseRecordAdded"
                            /\ speak("none")
              ELSE /\ purchaseState' = [purchaseState EXCEPT !.step = "askAmount"]
                   /\ purchaseConfirmEdit' = Null
                   /\ response' = "PurchaseChangeAmount"
                   /\ speak(autoListen(render))
                   /\ UNCHANGED requests
         [] OTHER ->
              UNCHANGED << purchaseState, purchaseConfirmEdit, response, requests,
                            isSpeaking, speaking >>

handlePurchaseReply(render, transcript) ==
    /\ UNCHANGED << borrowState, borrowConfirmEdit, isSaving, isProcessing,
                    saveListeners, commands >>
    /\ CASE render.purchaseState.step = "askSupplier" ->
              /\ purchaseState' = [purchaseState EXCEPT !.supplier = transcript, !.step = "askAmount"]
              /\ response' = "PurchaseAskAmount"
              /\ speak(autoListen(render))
              /\ UNCHANGED << purchaseConfirmEdit, requests >>
         [] render.purchaseState.step = "askAmount" ->
              LET amount == AmountOf[transcript]
              IN  IF amount = EmptyStr
                  THEN /\ response' = "AmountNotUnderstood"
                       /\ speak(autoListen(render))
                       /\ UNCHANGED << purchaseState, purchaseConfirmEdit, requests >>
                  ELSE /\ purchaseState' = [purchaseState EXCEPT !.amount = amount, !.step = "askPaid"]
                       /\ response' = "PurchaseAskPaid"
                       /\ speak(autoListen(render))
                       /\ UNCHANGED << purchaseConfirmEdit, requests >>
         [] render.purchaseState.step = "askPaid" ->
              LET newState == [render.purchaseState EXCEPT !.paid = PaidOf[transcript], !.step = "confirm"]
              IN  /\ purchaseState' = newState
                  /\ purchaseConfirmEdit' = << newState >>
                  /\ response' = "PurchaseShouldISave"
                  /\ speak(autoListen(render))
                  /\ UNCHANGED requests
         [] render.purchaseState.step = "confirm" ->
              IF Test[AffirmativePattern, transcript]
              THEN LET data == IF render.purchaseConfirmEdit # Null THEN render.purchaseConfirmEdit[1]
                               ELSE render.purchaseState
                   IN  IF data.supplier = EmptyStr \/ data.amount = EmptyStr \/ data.amount = <<"0">>
                       THEN /\ response' = "PurchaseMissingInformation"
                            /\ speak(autoListen(render))
                            /\ UNCHANGED << purchaseState, purchaseConfirmEdit, requests >>
                       ELSE /\ Len(requests.purchase) < MaxOutstanding
                            /\ requests' = [requests EXCEPT !.purchase =
                                   Append(@, Request(data.supplier, data.amount, data.paid, FALSE))]
                            /\ purchaseState' = [purchaseState EXCEPT !.step = "done"]
                            /\ purchaseConfirmEdit' = Null
                            /\ response' = "PurchaseRecordAdded"
                            /\ speak("none")
              ELSE IF Test[NegativePattern, transcript]
              THEN /\ purchaseState' = [purchaseState EXCEPT !.step = "askAmount"]
                   /\ purchaseConfirmEdit' = Null
                   /\ response' = "PurchaseChangeAmount"
                   /\ speak(autoListen(render))
                   /\ UNCHANGED requests
              ELSE /\ response' = "SayYesOrNo"
                   /\ speak(autoListen(render))
                   /\ UNCHANGED << purchaseState, purchaseConfirmEdit, requests >>
         [] OTHER ->
              UNCHANGED << purchaseState, purchaseConfirmEdit, response, requests,
                            isSpeaking, speaking >>

PurchaseQuickCommand(transcript) ==
    Test[ResetPattern, transcript] \/ Test[CancelPattern, transcript]

handlePurchaseQuickCommands(render, transcript) ==
    /\ IF Test[ResetPattern, transcript]
       THEN /\ purchaseState' = [resetPurchaseConversation EXCEPT !.step = "askSupplier"]
            /\ response' = "PurchaseFormCleared"
            /\ speak(autoListen(render))
       ELSE /\ purchaseState' = resetPurchaseConversation
            /\ response' = "Cancelled"
            /\ speak("none")
    /\ UNCHANGED << borrowState, borrowConfirmEdit, purchaseConfirmEdit,
                    isSaving, isProcessing, saveListeners, requests, commands >>

(***************************************************************************)
(* The generic command interpreter (VoiceCommandService.processCommand),   *)
(* an asynchronous call: isProcessing is set until its result is back.     *)
(***************************************************************************)
processVoiceCommand ==
    /\ commands < MaxCommands
    /\ isProcessing' = TRUE
    /\ commands' = commands + 1
    /\ UNCHANGED << borrowState, purchaseState, borrowConfirmEdit, purchaseConfirmEdit,
                    isSaving, response, saveListeners, requests, isSpeaking, speaking >>

CommandProcessed ==
    /\ commands > 0
    /\ commands' = commands - 1
    /\ isProcessing' = FALSE
    /\ response' = "CommandResult"
    /\ speak("none")
    /\ ev' = Event("commandProcessed", "none", EmptyStr, FALSE)
    /\ UNCHANGED pageVars
    /\ UNCHANGED micVars
    /\ UNCHANGED << borrowState, purchaseState, borrowConfirmEdit, purchaseConfirmEdit,
                    isSaving, saveListeners, requests, heard >>

(***************************************************************************)
(* Router: one transcript of the speech recognition.  The microphone can   *)
(* be opened with the voice button at every step, so a transcript may      *)
(* arrive in every state.  handleTranscript(transcript) is a transcript    *)
(* whose debounce delay nothing falls into: the render that handles it is  *)
(* the current one.  onResult and debounce, below, make the delay a step.  *)
(* heard counts the transcripts of the session, which MaxHeard bounds.     *)
(***************************************************************************)
\* the destination handleTranscript chooses for a transcript
Route(render, transcript) ==
    IF render.purchaseState.step # "idle" THEN "purchase"
    ELSE IF render.borrowState.step # "idle" THEN "borrow"
    ELSE IF Test[PurchaseKeyword, transcript] THEN "startPurchase"
    ELSE IF Test[BorrowKeyword, transcript] THEN "startBorrow"
    ELSE "command"

\* a router that looks for the borrow keyword first
routeTranscriptBorrowFirst(render, transcript) ==
    /\ ev' = Event("transcript", Route(render, transcript), transcript, FALSE)
    /\ UNCHANGED pageVars
    /\ heard' = heard + 1
    /\ IF render.purchaseState.step # "idle"
       THEN IF PurchaseQuickCommand(transcript)
            THEN handlePurchaseQuickCommands(render, transcript)
            ELSE handlePurchaseReply(render, transcript)
       ELSE IF render.borrowState.step # "idle"
       THEN IF BorrowQuickCommand(transcript)
            THEN handleQuickCommands(render, transcript)
            ELSE handleBorrowReply(render, transcript)
       ELSE IF Test[BorrowKeyword, transcript] THEN startBorrowConversation(render)
       ELSE IF Test[PurchaseKeyword, transcript] THEN startPurchaseConversation(render)
       ELSE processVoiceCommand

\* handleTranscript of a render, called with a transcript
routeTranscript(render, transcript) ==
    /\ ev' = Event("transcript", Route(render, transcript), transcript, FALSE)
    /\ UNCHANGED pageVars
    /\ heard' = heard + 1
    /\ IF render.purchaseState.step # "idle"
       THEN IF PurchaseQuickCommand(transcript)
            THEN handlePurchaseQuickCommands(render, transcript)
            ELSE handlePurchaseReply(render, transcript)
       ELSE IF render.borrowState.step # "idle"
       THEN IF BorrowQuickCommand(transcript)
            THEN handleQuickCommands(render, transcript)
            ELSE handleBorrowReply(render, transcript)
       ELSE IF Test[PurchaseKeyword, transcript] THEN startPurchaseConversation(render)
       ELSE IF Test[BorrowKeyword, transcript] THEN startBorrowConversation(render)
       ELSE processVoiceCommand

handleTranscript(transcript) ==
    /\ heard < MaxHeard
    /\ routeTranscript(Render, transcript)
    /\ UNCHANGED micVars

\* a transcript of a session of two flows
handleTranscriptLong(transcript) ==
    /\ heard < MaxHeardLong
    /\ routeTranscript(Render, transcript)
    /\ UNCHANGED micVars

\* a session of one flow and its confirmation
MaxHeardForm == 5

handleTranscriptForm(transcript) ==
    /\ heard < MaxHeardForm
    /\ routeTranscript(Render, transcript)
    /\ UNCHANGED micVars

Transcript == \E transcript \in Utterances : handleTranscript(transcript)
TranscriptLong == \E transcript \in UtterancesLong : handleTranscriptLong(transcript)
TranscriptFlow == \E transcript \in UtterancesFlow : handleTranscript(transcript)
TranscriptWords == \E transcript \in UtterancesWords : handleTranscript(transcript)
TranscriptNumbers == \E transcript \in UtterancesNumbers : handleTranscript(transcript)

(***************************************************************************)
(* The confirmation forms.                                                 *)
(***************************************************************************)
BorrowFormShown == borrowState.step = "confirm" /\ borrowConfirmEdit # Null
PurchaseFormShown == purchaseState.step = "confirm" /\ purchaseConfirmEdit # Null

\* an onChange that writes the slot as well as the editable copy
BorrowEditInPlace ==
    /\ BorrowFormShown
    /\ \/ \E v \in EditNames :
            /\ borrowConfirmEdit' = << [borrowConfirmEdit[1] EXCEPT !.name = v] >>
            /\ borrowState' = [borrowState EXCEPT !.name = v]
       \/ \E v \in EditAmounts :
            /\ borrowConfirmEdit' = << [borrowConfirmEdit[1] EXCEPT !.amount = v] >>
            /\ borrowState' = [borrowState EXCEPT !.amount = v]
       \/ \E v \in EditPaids :
            /\ borrowConfirmEdit' = << [borrowConfirmEdit[1] EXCEPT !.paid = v] >>
            /\ borrowState' = [borrowState EXCEPT !.paid = v]
    /\ ev' = Event("edit", "borrow", EmptyStr, FALSE)
    /\ UNCHANGED pageVars
    /\ UNCHANGED << isSpeaking, speaking >>
    /\ UNCHANGED micVars
    /\ UNCHANGED << purchaseState, purchaseConfirmEdit, isSaving,
                    isProcessing, response, saveListeners, requests, commands, heard >>

\* onChange of the three inputs of the borrow form
BorrowEdit ==
    /\ BorrowFormShown
    /\ \/ \E v \in EditNames :
            borrowConfirmEdit' = << [borrowConfirmEdit[1] EXCEPT !.name = v] >>
       \/ \E v \in EditAmounts :
            borrowConfirmEdit' = << [borrowConfirmEdit[1] EXCEPT !.amount = v] >>
       \/ \E v \in EditPaids :
            borrowConfirmEdit' = << [borrowConfirmEdit[1] EXCEPT !.paid = v] >>
    /\ ev' = Event("edit", "borrow", EmptyStr, FALSE)
    /\ UNCHANGED pageVars
    /\ UNCHANGED << isSpeaking, speaking >>
    /\ UNCHANGED micVars
    /\ UNCHANGED << borrowState, purchaseState, purchaseConfirmEdit, isSaving,
                    isProcessing, response, saveListeners, requests, commands, heard >>

PurchaseEdit ==
    /\ PurchaseFormShown
    /\ \/ \E v \in EditNames :
            purchaseConfirmEdit' = << [purchaseConfirmEdit[1] EXCEPT !.supplier = v] >>
       \/ \E v \in EditAmounts :
            purchaseConfirmEdit' = << [purchaseConfirmEdit[1] EXCEPT !.amount = v] >>
       \/ \E v \in EditPaids :
            purchaseConfirmEdit' = << [purchaseConfirmEdit[1] EXCEPT !.paid = v] >>
    /\ ev' = Event("edit", "purchase", EmptyStr, FALSE)
    /\ UNCHANGED pageVars
    /\ UNCHANGED << isSpeaking, speaking >>
    /\ UNCHANGED micVars
    /\ UNCHANGED << borrowState, purchaseState, borrowConfirmEdit, isSaving,
                    isProcessing, response, saveListeners, requests, commands, heard >>

\* onChange of the inputs of the forms, with the texts of FormNames,
\* FormAmounts and FormPaids
BorrowFormEdit ==
    /\ BorrowFormShown
    /\ \/ \E v \in FormNames :
            borrowConfirmEdit' = << [borrowConfirmEdit[1] EXCEPT !.name = v] >>
       \/ \E v \in FormAmounts :
            borrowConfirmEdit' = << [borrowConfirmEdit[1] EXCEPT !.amount = v] >>
       \/ \E v \in FormPaids :
            borrowConfirmEdit' = << [borrowConfirmEdit[1] EXCEPT !.paid = v] >>
    /\ ev' = Event("edit", "borrow", EmptyStr, FALSE)
    /\ UNCHANGED pageVars
    /\ UNCHANGED << isSpeaking, speaking >>
    /\ UNCHANGED micVars
    /\ UNCHANGED << borrowState, purchaseState, purchaseConfirmEdit, isSaving,
                    isProcessing, response, saveListeners, requests, commands, heard >>

PurchaseFormEdit ==
    /\ PurchaseFormShown
    /\ \/ \E v \in FormNames :
            purchaseConfirmEdit' = << [purchaseConfirmEdit[1] EXCEPT !.supplier = v] >>
       \/ \E v \in FormAmounts :
            purchaseConfirmEdit' = << [purchaseConfirmEdit[1] EXCEPT !.amount = v] >>
       \/ \E v \in FormPaids :
            purchaseConfirmEdit' = << [purchaseConfirmEdit[1] EXCEPT !.paid = v] >>
    /\ ev' = Event("edit", "purchase", EmptyStr, FALSE)
    /\ UNCHANGED pageVars
    /\ UNCHANGED << isSpeaking, speaking >>
    /\ UNCHANGED micVars
    /\ UNCHANGED << borrowState, purchaseState, borrowConfirmEdit, isSaving,
                    isProcessing, response, saveListeners, requests, commands, heard >>

\* the Edit buttons
BorrowEditClick ==
    /\ BorrowFormShown
    /\ borrowState' = [borrowState EXCEPT !.step = "askAmount"]
    /\ borrowConfirmEdit' = Null
    /\ ev' = Event("editClick", "borrow", EmptyStr, FALSE)
    /\ UNCHANGED pageVars
    /\ UNCHANGED << isSpeaking, speaking >>
    /\ UNCHANGED micVars
    /\ UNCHANGED << purchaseState, purchaseConfirmEdit, isSaving, isProcessing,
                    response, saveListeners, requests, commands, heard >>

PurchaseEditClick ==
    /\ PurchaseFormShown
    /\ purchaseState' = [purchaseState EXCEPT !.step = "askAmount"]
    /\ purchaseConfirmEdit' = Null
    /\ ev' = Event("editClick", "purchase", EmptyStr, FALSE)
    /\ UNCHANGED pageVars
    /\ UNCHANGED << isSpeaking, speaking >>
    /\ UNCHANGED micVars
    /\ UNCHANGED << borrowState, borrowConfirmEdit, isSaving, isProcessing,
                    response, saveListeners, requests, commands, heard >>

\* the disabled attribute of the Save buttons
BorrowSaveDisabled ==
    \/ borrowState.step # "confirm"
    \/ borrowConfirmEdit = Null
    \/ borrowConfirmEdit[1].name = EmptyStr
    \/ borrowConfirmEdit[1].amount = EmptyStr
    \/ borrowConfirmEdit[1].amount = <<"0">>
    \/ isProcessing
    \/ isSaving

PurchaseSaveDisabled ==
    \/ purchaseState.step # "confirm"
    \/ purchaseConfirmEdit = Null
    \/ purchaseConfirmEdit[1].supplier = EmptyStr
    \/ Test[UnknownSupplierPattern, purchaseConfirmEdit[1].supplier]
    \/ purchaseConfirmEdit[1].amount = EmptyStr
    \/ IsNaNNumber(purchaseConfirmEdit[1].amount)
    \/ isProcessing
    \/ isSaving

(***************************************************************************)
(* onClick of the Save buttons.  The click registers a one-shot listener   *)
(* for the result and dispatches the request; what follows the await runs  *)
(* when the listener is called (BorrowResult, PurchaseResult).  A listener *)
(* of the request may cancel the event (dispatchEvent returns false): the  *)
(* promise is then rejected at once and the click ends in its catch and    *)
(* finally blocks.                                                         *)
(***************************************************************************)
\* a click that leaves its result listener on the window when the dispatch
\* is cancelled
BorrowSaveClickLeavingListener ==
    /\ BorrowFormShown
    /\ ~BorrowSaveDisabled
    /\ \E eventDispatched \in BOOLEAN :
         /\ ev' = Event("saveClick", "borrow", EmptyStr, eventDispatched)
         /\ UNCHANGED pageVars
         /\ IF eventDispatched
            THEN /\ Len(requests.borrow) < MaxOutstanding
                 /\ isSaving' = TRUE
                 /\ saveListeners' = [saveListeners EXCEPT !.borrow = @ + 1]
                 /\ requests' = [requests EXCEPT !.borrow =
                        Append(@, Request(Trim(borrowConfirmEdit[1].name),
                                          borrowConfirmEdit[1].amount,
                                          borrowConfirmEdit[1].paid, TRUE))]
                 /\ UNCHANGED << response, isSpeaking, speaking >>
            ELSE /\ isSaving' = FALSE
                 /\ response' = "BorrowSaveFailed"
                 /\ speak("none")
                 /\ saveListeners' = [saveListeners EXCEPT !.borrow = @ + 1]
                 /\ UNCHANGED requests
    /\ UNCHANGED << borrowState, purchaseState, borrowConfirmEdit, purchaseConfirmEdit,
                    isProcessing, commands, heard >>
    /\ UNCHANGED micVars

BorrowSaveClick ==
    /\ BorrowFormShown
    /\ ~BorrowSaveDisabled
    /\ \E eventDispatched \in BOOLEAN :
         /\ ev' = Event("saveClick", "borrow", EmptyStr, eventDispatched)
         /\ UNCHANGED pageVars
         /\ IF eventDispatched
            THEN /\ Len(requests.borrow) < MaxOutstanding
                 /\ isSaving' = TRUE
                 /\ saveListeners' = [saveListeners EXCEPT !.borrow = @ + 1]
                 /\ requests' = [requests EXCEPT !.borrow =
                        Append(@, Request(Trim(borrowConfirmEdit[1].name),
                                          borrowConfirmEdit[1].amount,
                                          borrowConfirmEdit[1].paid, TRUE))]
                 /\ UNCHANGED << response, isSpeaking, speaking >>
            ELSE /\ isSaving' = FALSE
                 /\ response' = "BorrowSaveFailed"
                 /\ speak("none")
                 /\ UNCHANGED << saveListeners, requests >>
    /\ UNCHANGED << borrowState, purchaseState, borrowConfirmEdit, purchaseConfirmEdit,
                    isProcessing, commands, heard >>
    /\ UNCHANGED micVars

PurchaseSaveClick ==
    /\ PurchaseFormShown
    /\ ~PurchaseSaveDisabled
    /\ \E eventDispatched \in BOOLEAN :
         /\ ev' = Event("saveClick", "purchase", EmptyStr, eventDispatched)
         /\ UNCHANGED pageVars
         /\ IF eventDispatched
            THEN /\ Len(requests.purchase) < MaxOutstanding
                 /\ isSaving' = TRUE
                 /\ saveListeners' = [saveListeners EXCEPT !.purchase = @ + 1]
                 /\ requests' = [requests EXCEPT !.purchase =
                        Append(@, Request(Trim(purchaseConfirmEdit[1].supplier),
                                          purchaseConfirmEdit[1].amount,
                                          purchaseConfirmEdit[1].paid, TRUE))]
                 /\ UNCHANGED << response, isSpeaking, speaking >>
            ELSE /\ isSaving' = FALSE
                 /\ response' = "PurchaseSaveFailed"
                 /\ speak("none")
                 /\ UNCHANGED << saveListeners, requests >>
    /\ UNCHANGED << borrowState, purchaseState, borrowConfirmEdit, purchaseConfirmEdit,
                    isProcessing, commands, heard >>
    /\ UNCHANGED micVars

(***************************************************************************)
(* Result notifications.  The persistence component answers a request with *)
(* one add-borrow-result / add-purchase-result event, at a later time.     *)
(* The event runs every listener registered for it:                        *)
(*  - handleAddBorrowResult, which the effect keeps registered while the   *)
(*    borrow step is not 'done' (there is no such effect for purchases);   *)
(*  - the handleSaveResult of a Save click that is still waiting, which    *)
(*    removes itself and settles the promise; the rest of the click's      *)
(*    handler then runs before any other event and ends in finally.        *)
(***************************************************************************)
RemoveAt(q, i) == SubSeq(q, 1, i - 1) \o SubSeq(q, i + 1, Len(q))

handleAddBorrowResultRegistered == borrowState.step # "done"

DeliverBorrowResult(success) ==
    LET effect == handleAddBorrowResultRegistered
        waiting == saveListeners.borrow > 0
    IN  /\ IF success /\ (effect \/ waiting)
           THEN /\ borrowState' = [borrowState EXCEPT !.step = "done"]
                /\ borrowConfirmEdit' = Null
           ELSE UNCHANGED << borrowState, borrowConfirmEdit >>
        /\ response' = IF waiting THEN (IF success THEN "BorrowSaved" ELSE "BorrowSaveFailed")
                       ELSE IF effect THEN (IF success THEN "RecordAdded" ELSE "BorrowErrorReason")
                       ELSE response
        /\ IF waiting \/ effect THEN speak("none") ELSE UNCHANGED << isSpeaking, speaking >>
        /\ isSaving' = IF waiting THEN FALSE ELSE isSaving
        /\ saveListeners' = [saveListeners EXCEPT !.borrow = 0]
        /\ UNCHANGED << purchaseState, purchaseConfirmEdit, isProcessing, commands >>

DeliverPurchaseResult(success) ==
    LET waiting == saveListeners.purchase > 0
    IN  /\ IF success /\ waiting
           THEN /\ purchaseState' = [purchaseState EXCEPT !.step = "done"]
                /\ purchaseConfirmEdit' = Null
           ELSE UNCHANGED << purchaseState, purchaseConfirmEdit >>
        /\ response' = IF waiting THEN (IF success THEN "PurchaseSaved" ELSE "PurchaseSaveFailed")
                       ELSE response
        /\ IF waiting THEN speak("none") ELSE UNCHANGED << isSpeaking, speaking >>
        /\ isSaving' = IF waiting THEN FALSE ELSE isSaving
        /\ saveListeners' = [saveListeners EXCEPT !.purchase = 0]
        /\ UNCHANGED << borrowState, borrowConfirmEdit, isProcessing, commands >>

BorrowResult ==
    \E i \in 1..Len(requests.borrow), success \in BOOLEAN :
        /\ requests' = [requests EXCEPT !.borrow = RemoveAt(@, i)]
        /\ ev' = Event("result", "borrow", EmptyStr, success)
        /\ UNCHANGED pageVars
        /\ DeliverBorrowResult(success)
        /\ UNCHANGED heard
        /\ UNCHANGED micVars

PurchaseResult ==
    \E i \in 1..Len(requests.purchase), success \in BOOLEAN :
        /\ requests' = [requests EXCEPT !.purchase = RemoveAt(@, i)]
        /\ ev' = Event("result", "purchase", EmptyStr, success)
        /\ UNCHANGED pageVars
        /\ DeliverPurchaseResult(success)
        /\ UNCHANGED heard
        /\ UNCHANGED micVars

\* a second notification for a request that has had its result
BorrowDuplicateResult ==
    \E success \in BOOLEAN :
        /\ ev.type = "result" /\ ev.eng = "borrow"
        /\ ev' = Event("duplicate", "borrow", EmptyStr, success)
        /\ UNCHANGED pageVars
        /\ DeliverBorrowResult(success)
        /\ UNCHANGED heard
        /\ UNCHANGED micVars
        /\ UNCHANGED requests

PurchaseDuplicateResult ==
    \E success \in BOOLEAN :
        /\ ev.type = "result" /\ ev.eng = "purchase"
        /\ ev' = Event("duplicate", "purchase", EmptyStr, success)
        /\ UNCHANGED pageVars
        /\ DeliverPurchaseResult(success)
        /\ UNCHANGED heard
        /\ UNCHANGED micVars
        /\ UNCHANGED requests

(***************************************************************************)
(* The microphone, the prompts and the debounce.  The recognition and the  *)
(* speech output are collaborators of the component: the recognition       *)
(* captures from startListening until it hands over a transcript or an     *)
(* error; the speech output plays one prompt and then calls its onDone.    *)
(* The presenter resumes listening after a prompt, so the render a         *)
(* debounced handler belongs to is one in which isListening is false.      *)
(***************************************************************************)
MaxHeardVoice == 5
MaxPending == 1

UtterancesVoice ==
  { <<"b","o","r","r","o","w">>,
    <<"5","0","0">>,
    <<"y","e","s">> }

\* onClick of the voice button, which is disabled while isProcessing or
\* isSpeaking
handleVoiceClick ==
    /\ ~isProcessing
    /\ ~isSpeaking
    /\ micError' = "None"
    /\ IF isListening
       THEN /\ isListening' = FALSE
            /\ UNCHANGED response
       ELSE /\ isListening' = TRUE
            /\ response' = "None"
    /\ ev' = Event("voiceClick", "none", EmptyStr, FALSE)
    /\ UNCHANGED pageVars
    /\ UNCHANGED << borrowState, purchaseState, borrowConfirmEdit, purchaseConfirmEdit,
                    isSaving, isProcessing, saveListeners, requests, commands, heard,
                    isSpeaking, speaking, cooldownRef, pending >>

\* debounce(handleTranscript, 400) of the current render is called with a
\* transcript: the timer of that debounce is started again; the debounce of
\* another render keeps its timer
onResult(transcript) ==
    LET render == [Render EXCEPT !.isListening = FALSE]
    IN  /\ isListening
        /\ heard + Cardinality(pending) < MaxHeardVoice
        /\ isListening' = FALSE
        /\ pending' = { p \in pending : p.render # render }
                          \cup { [text |-> transcript, render |-> render] }
        /\ Cardinality(pending') <= MaxPending
        /\ ev' = Event("onResult", "none", transcript, FALSE)
        /\ UNCHANGED pageVars
        /\ UNCHANGED << borrowState, purchaseState, borrowConfirmEdit,
                        purchaseConfirmEdit, isSaving, isProcessing, response,
                        saveListeners, requests, commands, heard,
                        isSpeaking, speaking, cooldownRef, micError >>

\* the timer of a debounce fires: handleTranscript of its render runs
debounce ==
    \E p \in pending :
        /\ routeTranscript(p.render, p.text)
        /\ pending' = pending \ {p}
        /\ UNCHANGED << cooldownRef, isListening, micError >>

\* the done callback of the prompt played: setIsSpeaking(false), then onDone
speakDone ==
    /\ speaking # << >>
    /\ isSpeaking' = FALSE
    /\ speaking' = << >>
    /\ cooldownRef' = IF speaking[1] = "listen" THEN TRUE ELSE cooldownRef
    /\ ev' = Event("speakDone", "none", EmptyStr, FALSE)
    /\ UNCHANGED pageVars
    /\ UNCHANGED << borrowState, purchaseState, borrowConfirmEdit, purchaseConfirmEdit,
                    isSaving, isProcessing, response, saveListeners, requests,
                    commands, heard, isListening, micError, pending >>

\* the cooldown timer of autoListen fires, 500 ms after it was armed: the
\* isSpeaking it tests is the one of the render of autoListen, which was
\* false when the timer was armed
cooldown ==
    /\ cooldownRef
    /\ cooldownRef' = FALSE
    /\ isListening' = TRUE
    /\ ev' = Event("cooldown", "none", EmptyStr, FALSE)
    /\ UNCHANGED pageVars
    /\ UNCHANGED << borrowState, purchaseState, borrowConfirmEdit, purchaseConfirmEdit,
                    isSaving, isProcessing, response, saveListeners, requests,
                    commands, heard, isSpeaking, speaking, micError, pending >>

\* the error codes of the recognition
SpeechErrors ==
  { <<"n","o","-","s","p","e","e","c","h">>,
    <<"a","u","d","i","o","-","c","a","p","t","u","r","e">>,
    <<"n","e","t","w","o","r","k">>,
    <<"a","b","o","r","t","e","d">> }

\* the message handleSpeechError builds
SpeechErrorMessage(error) ==
    IF Contains(error, <<"n","o","-","s","p","e","e","c","h">>) THEN "NoSpeechDetected"
    ELSE IF Contains(error, <<"a","u","d","i","o","-","c","a","p","t","u","r","e">>)
         THEN "MicrophoneAccessDenied"
    ELSE IF Contains(error, <<"n","e","t","w","o","r","k">>) THEN "NetworkError"
    ELSE "SpeechRecognitionError"

\* an error handler that abandons the flows
handleSpeechErrorResetting(error) ==
    /\ isListening
    /\ isListening' = FALSE
    /\ response' = SpeechErrorMessage(error)
    /\ micError' = SpeechErrorMessage(error)
    /\ speak("none")
    /\ borrowState' = resetBorrowConversation
    /\ purchaseState' = resetPurchaseConversation
    /\ ev' = Event("speechError", "none", error, FALSE)
    /\ UNCHANGED pageVars
    /\ UNCHANGED << borrowConfirmEdit, purchaseConfirmEdit,
                    isSaving, isProcessing, saveListeners, requests, commands, heard,
                    cooldownRef, pending >>

\* onError of the recognition, which ends the capture
handleSpeechError(error) ==
    /\ isListening
    /\ isListening' = FALSE
    /\ response' = SpeechErrorMessage(error)
    /\ micError' = SpeechErrorMessage(error)
    /\ speak("none")
    /\ ev' = Event("speechError", "none", error, FALSE)
    /\ UNCHANGED pageVars
    /\ UNCHANGED << borrowState, purchaseState, borrowConfirmEdit, purchaseConfirmEdit,
                    isSaving, isProcessing, saveListeners, requests, commands, heard,
                    cooldownRef, pending >>

VoiceClick == handleVoiceClick
Result == \E transcript \in UtterancesVoice : onResult(transcript)
SpeechError == \E error \in SpeechErrors : handleSpeechError(error)

(***************************************************************************)
(* App.  The component starts with loading true and subscribes to the auth *)
(* state; it asks for the existing session once.  The pages are lazy       *)
(* modules shown under a Suspense fallback until they are loaded.          *)
(***************************************************************************)
MaxAuthEvents == 2

\* the callback given to supabase.auth.onAuthStateChange
onAuthStateChangeSignedIn(session) ==
    /\ auth.events < MaxAuthEvents
    /\ app' = [user |-> UserOf(session), session |-> session,
               loading |-> IF session = NoSession THEN app.loading ELSE FALSE]
    /\ auth' = [auth EXCEPT !.events = @ + 1]
    /\ ev' = Event("authState", "none", EmptyStr, FALSE)
    /\ UNCHANGED << browser, incomeExpense, supabase >>
    /\ UNCHANGED assistantVars

onAuthStateChange(session) ==
    /\ auth.events < MaxAuthEvents
    /\ app' = [user |-> UserOf(session), session |-> session, loading |-> FALSE]
    /\ auth' = [auth EXCEPT !.events = @ + 1]
    /\ ev' = Event("authState", "none", EmptyStr, FALSE)
    /\ UNCHANGED << browser, incomeExpense, supabase >>
    /\ UNCHANGED assistantVars

\* the then of supabase.auth.getSession()
getSessionThen(session) ==
    /\ auth.getSession = "pending"
    /\ app' = [user |-> UserOf(session), session |-> session, loading |-> FALSE]
    /\ auth' = [auth EXCEPT !.getSession = "fulfilled"]
    /\ ev' = Event("getSession", "none", EmptyStr, FALSE)
    /\ UNCHANGED << browser, incomeExpense, supabase >>
    /\ UNCHANGED assistantVars

\* the promise of getSession is rejected: the then is never called
getSessionRejected ==
    /\ auth.getSession = "pending"
    /\ auth' = [auth EXCEPT !.getSession = "rejected"]
    /\ ev' = Event("getSessionRejected", "none", EmptyStr, FALSE)
    /\ UNCHANGED << app, browser, incomeExpense, supabase >>
    /\ UNCHANGED assistantVars

\* the element of the route that matches the location
RouteElement ==
    IF browser.path = "/"
    THEN (IF app.user # "null" THEN "Index" ELSE "Auth")
    ELSE "NotFound"

\* what App returns
View ==
    IF app.loading THEN "LoadingSpinner"
    ELSE IF RouteElement \in browser.loaded THEN RouteElement
    ELSE "Fallback"

\* the location changes
navigate(path) ==
    /\ path # browser.path
    /\ browser' = [browser EXCEPT !.path = path]
    /\ ev' = Event("navigate", "none", EmptyStr, FALSE)
    /\ UNCHANGED << app, auth, incomeExpense, supabase >>
    /\ UNCHANGED assistantVars

\* the import of the lazy page that is rendered is done
lazyLoaded ==
    /\ View = "Fallback"
    /\ browser' = [browser EXCEPT !.loaded = @ \cup { RouteElement }]
    /\ ev' = Event("lazyLoaded", "none", EmptyStr, FALSE)
    /\ UNCHANGED << app, auth, incomeExpense, supabase >>
    /\ UNCHANGED assistantVars

(***************************************************************************)
(* IncomeExpense.  The effect of the mount asks for the first page and     *)
(* registers the listeners of data-updated and add-transaction; the filter *)
(* stays 'all', so the listeners are the ones of the first render for the  *)
(* whole session.  fetchTransactions and addTransaction are closures of a  *)
(* render: the page, the isSubmitting and the transactions they read are   *)
(* the ones of that render.  A call to the table is answered later, in any *)
(* order.  supabase.ops counts the operations started, which MaxOps bounds.*)
(***************************************************************************)
MaxOps == 3

\* what the handlers registered by the effect see: the first render
MountRender == [transactions |-> << >>, isSubmitting |-> FALSE, page |-> 1]

\* what the handlers of the buttons see: the current render
IncomeExpenseRender ==
    [transactions |-> incomeExpense.transactions,
     isSubmitting |-> incomeExpense.isSubmitting,
     page |-> incomeExpense.page]

\* the rows of range((page - 1) * PAGE_SIZE, page * PAGE_SIZE - 1)
PageOf(table, page) ==
    LET from == (page - 1) * PageSize + 1
        to == IF page * PageSize < Len(table) THEN page * PageSize ELSE Len(table)
    IN  IF from > Len(table) THEN << >> ELSE SubSeq(table, from, to)

\* the Load More button, shown when hasMore && !loading
loadMore ==
    /\ supabase.ops < MaxOps
    /\ incomeExpense.hasMore
    /\ ~incomeExpense.loading
    /\ incomeExpense' = [incomeExpense EXCEPT !.page = @ + 1, !.loading = TRUE]
    /\ supabase' = [supabase EXCEPT
           !.ops = @ + 1,
           !.calls = Append(@, Call("select", IncomeExpenseRender.page, FALSE, "none", << >>))]
    /\ ev' = Event("loadMore", "none", EmptyStr, FALSE)
    /\ UNCHANGED << app, auth, browser >>
    /\ UNCHANGED assistantVars

\* the listener of data-updated
handleDataUpdated ==
    /\ supabase.ops < MaxOps
    /\ incomeExpense' = [incomeExpense EXCEPT !.page = 1, !.loading = TRUE]
    /\ supabase' = [supabase EXCEPT
           !.ops = @ + 1,
           !.calls = Append(@, Call("select", MountRender.page, TRUE, "none", << >>))]
    /\ ev' = Event("dataUpdated", "none", EmptyStr, FALSE)
    /\ UNCHANGED << app, auth, browser >>
    /\ UNCHANGED assistantVars

\* fetchTransactions from its await on; when addTransaction awaits it, the
\* rest of addTransaction follows: it dispatches data-updated, which runs
\* handleDataUpdated, and clears isSubmitting
fetchTransactions(i, error) ==
    LET call == supabase.calls[i]
        data == PageOf(supabase.table, call.page)
        fetched == IF error THEN incomeExpense
                   ELSE [incomeExpense EXCEPT
                            !.transactions = IF call.reset THEN data ELSE @ \o data,
                            !.hasMore = (Len(data) = PageSize)]
    IN  /\ call.op = "select"
        /\ IF call.after = "addTransaction"
           THEN /\ incomeExpense' = [fetched EXCEPT !.page = 1, !.loading = TRUE,
                                                     !.isSubmitting = FALSE]
                /\ supabase' = [supabase EXCEPT !.calls =
                       Append(RemoveAt(@, i),
                              Call("select", MountRender.page, TRUE, "none", << >>))]
           ELSE /\ incomeExpense' = [fetched EXCEPT !.loading = FALSE]
                /\ supabase' = [supabase EXCEPT !.calls = RemoveAt(@, i)]
        /\ ev' = Event("fetched", "none", EmptyStr, ~error)
        /\ UNCHANGED << app, auth, browser >>
        /\ UNCHANGED assistantVars

\* what is in the form, or in the detail of an add-transaction event
TransactionData ==
    { [type |-> "income", amount |-> "50", category |-> "Sales"],
      [type |-> "income", amount |-> "", category |-> "Sales"] }

\* addTransaction of a render, up to its await
addTransaction(render, dataToUse) ==
    /\ supabase.ops < MaxOps
    /\ IF dataToUse.amount # "" /\ dataToUse.category # "" /\ ~render.isSubmitting
       THEN /\ incomeExpense' = [incomeExpense EXCEPT !.isSubmitting = TRUE]
            /\ supabase' = [supabase EXCEPT
                   !.ops = @ + 1,
                   !.calls = Append(@, Call("insert", render.page, FALSE, "none",
                                            render.transactions))]
       ELSE UNCHANGED << incomeExpense, supabase >>
    /\ UNCHANGED << app, auth, browser >>
    /\ UNCHANGED assistantVars

\* the Add Transaction button, disabled while isSubmitting; the form is not
\* rendered while loading
addTransactionClick(dataToUse) ==
    /\ ~incomeExpense.loading
    /\ ~incomeExpense.isSubmitting
    /\ addTransaction(IncomeExpenseRender, dataToUse)
    /\ ev' = Event("addClick", "none", EmptyStr, dataToUse.amount # "")

\* the listener of add-transaction
handleAddTransaction(detail) ==
    /\ IF detail.type # "" /\ detail.amount # "" /\ detail.category # ""
       THEN addTransaction(MountRender, detail)
       ELSE /\ UNCHANGED pageVars
            /\ UNCHANGED assistantVars
    /\ ev' = Event("addTransaction", "none", EmptyStr, detail.amount # "")

\* addTransaction from the answer of the insert on: the new row is put
\* before the transactions of the render, and fetchTransactions() of the
\* render is awaited
insertDone(i, error) ==
    LET call == supabase.calls[i]
        id == Len(supabase.table) + 1
    IN  /\ call.op = "insert"
        /\ IF error
           THEN /\ incomeExpense' = [incomeExpense EXCEPT !.isSubmitting = FALSE]
                /\ supabase' = [supabase EXCEPT !.calls = RemoveAt(@, i)]
           ELSE /\ incomeExpense' = [incomeExpense EXCEPT
                       !.transactions = << id >> \o call.transactions,
                       !.loading = TRUE]
                /\ supabase' = [supabase EXCEPT
                       !.table = << id >> \o @,
                       !.calls = Append(RemoveAt(@, i),
                                        Call("select", call.page, FALSE, "addTransaction",
                                             << >>))]
        /\ ev' = Event("inserted", "none", EmptyStr, ~error)
        /\ UNCHANGED << app, auth, browser >>
        /\ UNCHANGED assistantVars

(***************************************************************************)
(* Specifications.  Spec: the persistence component answers every request  *)
(* once.  SpecDup: it may also repeat a result.                            *)
(***************************************************************************)
Next ==
    \/ Transcript
    \/ CommandProcessed
    \/ BorrowEdit
    \/ PurchaseEdit
    \/ BorrowEditClick
    \/ PurchaseEditClick
    \/ BorrowSaveClick
    \/ PurchaseSaveClick
    \/ BorrowResult
    \/ PurchaseResult

Spec == Init /\ [][Next]_vars

NextDup ==
    \/ Next
    \/ BorrowDuplicateResult
    \/ PurchaseDuplicateResult

SpecDup == Init /\ [][NextDup]_vars

\* what happens besides the transcripts
Others ==
    \/ CommandProcessed
    \/ BorrowEdit
    \/ PurchaseEdit
    \/ BorrowEditClick
    \/ PurchaseEditClick
    \/ BorrowSaveClick
    \/ PurchaseSaveClick
    \/ BorrowResult
    \/ PurchaseResult

NextFlow ==
    \/ TranscriptFlow
    \/ Others

SpecFlow == Init /\ [][NextFlow]_vars

NextWords ==
    \/ TranscriptWords
    \/ Others

SpecWords == Init /\ [][NextWords]_vars

NextLong ==
    \/ TranscriptLong
    \/ Others

SpecLong == Init /\ [][NextLong]_vars

\* the replies of UtterancesNumbers, heard one after the other
NextNumbers == TranscriptNumbers

SpecNumbers == Init /\ [][NextNumbers]_vars

\* a session of one flow whose confirmation form is typed over, and saved by
\* voice or by the button
NextForm ==
    \/ \E transcript \in UtterancesForm : handleTranscriptForm(transcript)
    \/ BorrowFormEdit
    \/ PurchaseFormEdit
    \/ BorrowSaveClick
    \/ PurchaseSaveClick
    \/ BorrowResult
    \/ PurchaseResult

SpecForm == Init /\ [][NextForm]_vars

\* a session in which "Should I save?" is answered with refusals
NextReplies ==
    \/ \E transcript \in UtterancesReplies : handleTranscript(transcript)
    \/ BorrowSaveClick
    \/ PurchaseSaveClick
    \/ BorrowResult
    \/ PurchaseResult

SpecReplies == Init /\ [][NextReplies]_vars

\* a session with the microphone: transcripts are captured while listening
\* and handled when their debounce delay is over; prompts are played and end
NextVoice ==
    \/ VoiceClick
    \/ Result
    \/ debounce
    \/ speakDone
    \/ cooldown
    \/ SpeechError
    \/ BorrowEditClick
    \/ BorrowSaveClick
    \/ BorrowResult

SpecVoice == Init /\ [][NextVoice]_vars

\* App from its mount on
NextApp ==
    \/ \E session \in Sessions \cup { NoSession } : onAuthStateChange(session)
    \/ \E session \in Sessions \cup { NoSession } : getSessionThen(session)
    \/ getSessionRejected
    \/ \E path \in { "/", "/other" } : navigate(path)
    \/ lazyLoaded

SpecApp == Init /\ [][NextApp]_vars

\* the transaction list: the first load, Load More and the refreshes
NextList ==
    \/ loadMore
    \/ handleDataUpdated
    \/ \E i \in DOMAIN supabase.calls : \E error \in BOOLEAN : fetchTransactions(i, error)

SpecList == Init /\ [][NextList]_vars

\* IncomeExpense with its form and the add-transaction events
NextIncome ==
    \/ loadMore
    \/ handleDataUpdated
    \/ \E i \in DOMAIN supabase.calls : \E error \in BOOLEAN : fetchTransactions(i, error)
    \/ \E dataToUse \in TransactionData : addTransactionClick(dataToUse)
    \/ \E detail \in TransactionData : handleAddTransaction(detail)
    \/ \E i \in DOMAIN supabase.calls : \E error \in BOOLEAN : insertDone(i, error)

SpecIncome == Init /\ [][NextIncome]_vars

(***************************************************************************)
(* Properties.                                                             *)
(***************************************************************************)
\* the check the spoken confirmation makes before it dispatches
ValidBorrowBuffer ==
    /\ borrowConfirmEdit # Null
    /\ borrowConfirmEdit[1].name # EmptyStr
    /\ borrowConfirmEdit[1].amount \notin { EmptyStr, <<"0">> }

ValidPurchaseBuffer ==
    /\ purchaseConfirmEdit # Null
    /\ purchaseConfirmEdit[1].supplier # EmptyStr
    /\ purchaseConfirmEdit[1].amount \notin { EmptyStr, <<"0">> }

\* C1: for each engine, at no time are two commit requests waiting for
\* their result, whatever the interleaving of Save clicks and spoken
\* confirmations.
C1_AtMostOneOutstandingCommit ==
    /\ Len(requests.borrow) <= 1
    /\ Len(requests.purchase) <= 1

\* C2: an engine enters 'done' only in the step that handles a successful
\* result notification of its own kind.
C2_DoneOnlyBySuccessResult ==
    [][ /\ (borrowState.step # "done" /\ borrowState'.step = "done")
            => (ev'.type = "result" /\ ev'.eng = "borrow" /\ ev'.ok)
        /\ (purchaseState.step # "done" /\ purchaseState'.step = "done")
            => (ev'.type = "result" /\ ev'.eng = "purchase" /\ ev'.ok)
      ]_vars

\* C3: when a commit of a flow that was not abandoned fails (a result with
\* success false, or a cancelled dispatch), the engine is afterwards in
\* 'confirm' with its edit buffer present and unchanged; it is not 'done'.
C3_FailureKeepsConfirming ==
    [][ /\ (/\ ev'.type = "result" /\ ev'.eng = "borrow" /\ ~ev'.ok
            /\ borrowState.step \in {"confirm", "done"})
            => (/\ borrowState'.step = "confirm"
                /\ borrowConfirmEdit' # Null
                /\ borrowConfirmEdit' = borrowConfirmEdit)
        /\ (/\ ev'.type = "result" /\ ev'.eng = "purchase" /\ ~ev'.ok
            /\ purchaseState.step \in {"confirm", "done"})
            => (/\ purchaseState'.step = "confirm"
                /\ purchaseConfirmEdit' # Null
                /\ purchaseConfirmEdit' = purchaseConfirmEdit)
        /\ (ev'.type = "saveClick" /\ ev'.eng = "borrow" /\ ~ev'.ok)
            => (/\ borrowState'.step = "confirm"
                /\ borrowConfirmEdit' # Null
                /\ borrowConfirmEdit' = borrowConfirmEdit)
        /\ (ev'.type = "saveClick" /\ ev'.eng = "purchase" /\ ~ev'.ok)
            => (/\ purchaseState'.step = "confirm"
                /\ purchaseConfirmEdit' # Null
                /\ purchaseConfirmEdit' = purchaseConfirmEdit)
      ]_vars

\* C4: a result notification that arrives when the flow has been cancelled
\* (engine idle) or reset (engine at its first slot) leaves the step and the
\* slots of that engine unchanged.
C4_LateResultIgnored ==
    [][ /\ (/\ ev'.type = "result" /\ ev'.eng = "borrow"
            /\ borrowState.step \in {"idle", "askName"})
            => borrowState' = borrowState
        /\ (/\ ev'.type = "result" /\ ev'.eng = "purchase"
            /\ purchaseState.step \in {"idle", "askSupplier"})
            => purchaseState' = purchaseState
      ]_vars

\* C5: a request is dispatched, by the spoken confirmation or by the Save
\* button, only when the edit buffer holds a non-empty name (supplier) and
\* an amount that is neither empty nor 0.
C5_DispatchOnlyWhenValid ==
    [][ /\ Len(requests'.borrow) > Len(requests.borrow) => ValidBorrowBuffer
        /\ Len(requests'.purchase) > Len(requests.purchase) => ValidPurchaseBuffer
      ]_vars

\* C6: in 'confirm' with a valid edit buffer a spoken confirmation
\* dispatches exactly one request, and it is the successful result of that
\* request that takes the engine from not 'done' to 'done'.
C6_SpokenCommitDoneOnceByResult ==
    [][ /\ (/\ ev'.type = "transcript" /\ ev'.eng = "borrow"
            /\ borrowState.step = "confirm" /\ ValidBorrowBuffer
            /\ ~BorrowQuickCommand(ev'.text)
            /\ Test[AffirmativePattern, ev'.text])
            => Len(requests'.borrow) = Len(requests.borrow) + 1
        /\ (/\ ev'.type = "transcript" /\ ev'.eng = "purchase"
            /\ purchaseState.step = "confirm" /\ ValidPurchaseBuffer
            /\ ~PurchaseQuickCommand(ev'.text)
            /\ Test[AffirmativePattern, ev'.text])
            => Len(requests'.purchase) = Len(requests.purchase) + 1
        /\ (/\ ev'.type = "result" /\ ev'.eng = "borrow" /\ ev'.ok
            /\ Len(requests.borrow) = 1 /\ ~requests.borrow[1].cancelable
            /\ borrowState.step \in {"confirm", "done"})
            => (borrowState.step # "done" /\ borrowState'.step = "done")
        /\ (/\ ev'.type = "result" /\ ev'.eng = "purchase" /\ ev'.ok
            /\ Len(requests.purchase) = 1 /\ ~requests.purchase[1].cancelable
            /\ purchaseState.step \in {"confirm", "done"})
            => (purchaseState.step # "done" /\ purchaseState'.step = "done")
      ]_vars

\* C7: a second result notification for a request that has had its result
\* changes neither the steps, the slots, the edit buffers nor the pending
\* marker, whatever the success values of the two notifications.
C7_DuplicateResultIsNoOp ==
    [][ ev'.type = "duplicate"
            => UNCHANGED << borrowState, purchaseState, borrowConfirmEdit,
                            purchaseConfirmEdit, isSaving, saveListeners >>
      ]_vars

\* C8: after a cancel or reset quick command the engine has no pending
\* marker and no result listener of an abandoned Save.
C8_QuickCommandDropsPendingSave ==
    [][ /\ (/\ ev'.type = "transcript" /\ ev'.eng = "borrow"
            /\ BorrowQuickCommand(ev'.text))
            => (~isSaving' /\ saveListeners'.borrow = 0)
        /\ (/\ ev'.type = "transcript" /\ ev'.eng = "purchase"
            /\ PurchaseQuickCommand(ev'.text))
            => (~isSaving' /\ saveListeners'.purchase = 0)
      ]_vars

\* C9: an edit buffer is present only while its engine is in 'confirm'.
C9_EditBufferOnlyInConfirm ==
    /\ borrowConfirmEdit # Null => borrowState.step = "confirm"
    /\ purchaseConfirmEdit # Null => purchaseState.step = "confirm"

\* C10: while an engine is 'done', no transcript delivered to it changes its
\* step or its slots, the reset and cancel words included.
C10_DoneIsTerminal ==
    [][ /\ (/\ ev'.type = "transcript" /\ ev'.eng = "borrow"
            /\ borrowState.step = "done")
            => borrowState' = borrowState
        /\ (/\ ev'.type = "transcript" /\ ev'.eng = "purchase"
            /\ purchaseState.step = "done")
            => purchaseState' = purchaseState
      ]_vars

\* C11: when the flows of both engines have ended (by cancel: 'idle', or by
\* a commit: 'done'), a transcript with the purchase keyword starts a fresh
\* purchase flow at its first slot with empty slots, one with the borrow
\* keyword starts a fresh borrow flow, and one with no keyword reaches the
\* generic command interpreter.
C11_RearmedAfterEnd ==
    [][ (/\ ev'.type = "transcript"
         /\ borrowState.step \in {"idle", "done"}
         /\ purchaseState.step \in {"idle", "done"})
        => IF Test[PurchaseKeyword, ev'.text]
           THEN purchaseState' = [step |-> "askSupplier", supplier |-> EmptyStr,
                                  amount |-> EmptyStr, paid |-> EmptyStr]
           ELSE IF Test[BorrowKeyword, ev'.text]
           THEN borrowState' = [step |-> "askName", name |-> EmptyStr,
                                amount |-> EmptyStr, paid |-> EmptyStr]
           ELSE commands' = commands + 1
      ]_vars

\* C12: in 'confirm', every reply that matches the negative vocabulary moves
\* the engine to 'askAmount', keeps the name (supplier) and leaves the edit
\* buffer absent.
C12_NegativeReturnsToAmount ==
    [][ /\ (/\ ev'.type = "transcript" /\ ev'.eng = "borrow"
            /\ borrowState.step = "confirm"
            /\ Test[NegativePattern, ev'.text])
            => (/\ borrowState'.step = "askAmount"
                /\ borrowState'.name = borrowState.name
                /\ borrowConfirmEdit' = Null)
        /\ (/\ ev'.type = "transcript" /\ ev'.eng = "purchase"
            /\ purchaseState.step = "confirm"
            /\ Test[NegativePattern, ev'.text])
            => (/\ purchaseState'.step = "askAmount"
                /\ purchaseState'.supplier = purchaseState.supplier
                /\ purchaseConfirmEdit' = Null)
      ]_vars

\* the fields of two editable copies that differ
Differing(a, b) == { f \in DOMAIN a : a[f] # b[f] }

Said(text) ==
    CASE text = <<"5","0","0">> -> 500
      [] text = <<"0">> -> 0
      [] text = <<"t","w","o"," ","h","u","n","d","r","e","d">> -> 200
      [] OTHER -> NoNumber

\* a string of digits that denotes n
Denotes(str, n) ==
    /\ str # EmptyStr
    /\ \A k \in 1..Len(str) : IsDigit(str[k])
    /\ ParseInt(str) = n

\* C14: a flow that is started is at its first slot with empty slots; the
\* reply to the first question is stored as the name (supplier), a reply
\* with a number above 0 is stored as the amount, a reply with a number of
\* 0 or more is stored as the paid amount, and the engine is then in
\* 'confirm' with these three values in its slots and an edit buffer equal
\* to the slots.
C14_ThreeRepliesReachConfirm ==
    [][ /\ (ev'.type = "transcript" /\ ev'.eng = "startBorrow")
            => borrowState' = [step |-> "askName", name |-> EmptyStr,
                               amount |-> EmptyStr, paid |-> EmptyStr]
        /\ (ev'.type = "transcript" /\ ev'.eng = "startPurchase")
            => purchaseState' = [step |-> "askSupplier", supplier |-> EmptyStr,
                                 amount |-> EmptyStr, paid |-> EmptyStr]
        /\ (ev'.type = "transcript" /\ ev'.eng = "borrow" /\ borrowState.step = "askName")
            => borrowState' = [borrowState EXCEPT !.step = "askAmount", !.name = ev'.text]
        /\ (ev'.type = "transcript" /\ ev'.eng = "purchase" /\ purchaseState.step = "askSupplier")
            => purchaseState' = [purchaseState EXCEPT !.step = "askAmount", !.supplier = ev'.text]
        /\ (/\ ev'.type = "transcript" /\ ev'.eng = "borrow"
            /\ borrowState.step = "askAmount" /\ Said(ev'.text) > 0)
            => (/\ borrowState'.step = "askPaid"
                /\ Denotes(borrowState'.amount, Said(ev'.text))
                /\ borrowState'.name = borrowState.name
                /\ borrowState'.paid = borrowState.paid)
        /\ (/\ ev'.type = "transcript" /\ ev'.eng = "purchase"
            /\ purchaseState.step = "askAmount" /\ Said(ev'.text) > 0)
            => (/\ purchaseState'.step = "askPaid"
                /\ Denotes(purchaseState'.amount, Said(ev'.text))
                /\ purchaseState'.supplier = purchaseState.supplier
                /\ purchaseState'.paid = purchaseState.paid)
        /\ (/\ ev'.type = "transcript" /\ ev'.eng = "borrow"
            /\ borrowState.step = "askPaid" /\ Said(ev'.text) >= 0)
            => (/\ borrowState'.step = "confirm"
                /\ Denotes(borrowState'.paid, Said(ev'.text))
                /\ borrowState'.name = borrowState.name
                /\ borrowState'.amount = borrowState.amount
                /\ borrowConfirmEdit' = << borrowState' >>)
        /\ (/\ ev'.type = "transcript" /\ ev'.eng = "purchase"
            /\ purchaseState.step = "askPaid" /\ Said(ev'.text) >= 0)
            => (/\ purchaseState'.step = "confirm"
                /\ Denotes(purchaseState'.paid, Said(ev'.text))
                /\ purchaseState'.supplier = purchaseState.supplier
                /\ purchaseState'.amount = purchaseState.amount
                /\ purchaseConfirmEdit' = << purchaseState' >>)
      ]_vars

\* Ravi, 500, two hundred have been said and the form shows Ravi, 500, 200
C14_Witness ==
    /\ ev.type = "transcript" /\ ev.eng = "borrow"
    /\ ev.text = <<"t","w","o"," ","h","u","n","d","r","e","d">>
    /\ borrowState = [step |-> "confirm", name |-> <<"R","a","v","i">>,
                      amount |-> <<"5","0","0">>, paid |-> <<"2","0","0">>]
    /\ borrowConfirmEdit = << borrowState >>

\* C15: at 'askAmount', a reply in which no number above 0 is said (no
\* number at all, or zero) leaves the engine at 'askAmount' with its slots
\* as they were; nothing but the message changes.
C15_UnresolvedAmountReprompts ==
    [][ /\ (/\ ev'.type = "transcript" /\ ev'.eng = "borrow"
            /\ borrowState.step = "askAmount"
            /\ ~BorrowQuickCommand(ev'.text)
            /\ Said(ev'.text) \in {NoNumber, 0})
            => (/\ borrowState' = borrowState
                /\ response' = "AmountNotUnderstood"
                /\ UNCHANGED << purchaseState, borrowConfirmEdit, purchaseConfirmEdit,
                                isSaving, isProcessing, saveListeners, requests, commands >>)
        /\ (/\ ev'.type = "transcript" /\ ev'.eng = "purchase"
            /\ purchaseState.step = "askAmount"
            /\ ~PurchaseQuickCommand(ev'.text)
            /\ Said(ev'.text) \in {NoNumber, 0})
            => (/\ purchaseState' = purchaseState
                /\ response' = "AmountNotUnderstood"
                /\ UNCHANGED << borrowState, borrowConfirmEdit, purchaseConfirmEdit,
                                isSaving, isProcessing, saveListeners, requests, commands >>)
      ]_vars

\* zero has been said for the amount of a loan from Ravi
C15_Witness ==
    /\ ev.type = "transcript" /\ ev.eng = "borrow"
    /\ ev.text = <<"0">>
    /\ borrowState = [step |-> "askAmount", name |-> <<"R","a","v","i">>,
                      amount |-> EmptyStr, paid |-> EmptyStr]
    /\ response = "AmountNotUnderstood"

\* C16: at 'askPaid' every reply takes the engine to 'confirm' (the
\* question is never asked again), and a reply in which no number is said
\* stores 0 as the paid amount.
C16_UnresolvedPaidIsZero ==
    [][ /\ (/\ ev'.type = "transcript" /\ ev'.eng = "borrow"
            /\ borrowState.step = "askPaid"
            /\ ~BorrowQuickCommand(ev'.text))
            => (/\ borrowState'.step = "confirm"
                /\ Said(ev'.text) = NoNumber => borrowState'.paid = <<"0">>)
        /\ (/\ ev'.type = "transcript" /\ ev'.eng = "purchase"
            /\ purchaseState.step = "askPaid"
            /\ ~PurchaseQuickCommand(ev'.text))
            => (/\ purchaseState'.step = "confirm"
                /\ Said(ev'.text) = NoNumber => purchaseState'.paid = <<"0">>)
      ]_vars

\* a name has been said for the paid amount of a purchase of 500
C16_Witness ==
    /\ ev.type = "transcript" /\ ev.eng = "purchase"
    /\ ev.text = <<"R","a","v","i">>
    /\ purchaseState.step = "confirm"
    /\ purchaseState.amount = <<"5","0","0">>
    /\ purchaseState.paid = <<"0">>
    /\ purchaseConfirmEdit = << purchaseState >>

\* a string of digits
IsNumeral(str) == str # EmptyStr /\ \A k \in 1..Len(str) : IsDigit(str[k])

\* C17: whenever an engine is in 'confirm', its amount slot holds an integer
\* above 0 and its paid slot holds an integer of 0 or more.
C17_ConfirmHoldsAmounts ==
    /\ borrowState.step = "confirm"
        => (/\ IsNumeral(borrowState.amount) /\ ParseInt(borrowState.amount) > 0
            /\ IsNumeral(borrowState.paid) /\ ParseInt(borrowState.paid) >= 0)
    /\ purchaseState.step = "confirm"
        => (/\ IsNumeral(purchaseState.amount) /\ ParseInt(purchaseState.amount) > 0
            /\ IsNumeral(purchaseState.paid) /\ ParseInt(purchaseState.paid) >= 0)

\* 'confirm' has been reached with an amount said in words, after a zero
\* was refused for it, and with a paid amount of zero
C17_Witness ==
    /\ borrowState.step = "confirm"
    /\ borrowState.amount = <<"2","0","0">>
    /\ borrowState.paid = <<"0">>
    /\ ev.type = "transcript" /\ ev.text = <<"0">>
    /\ heard >= 5

\* the steps of a flow that is running
ActiveBorrowSteps == {"askName", "askAmount", "askPaid", "confirm"}
ActivePurchaseSteps == {"askSupplier", "askAmount", "askPaid", "confirm"}

\* C18: a reset word heard at a step of a running flow leaves the engine at
\* its first slot with name (supplier), amount and paid empty, whatever the
\* slots held.
C18_ResetEmptiesSlots ==
    [][ /\ (/\ ev'.type = "transcript" /\ ev'.eng = "borrow"
            /\ borrowState.step \in ActiveBorrowSteps
            /\ Test[ResetPattern, ev'.text])
            => borrowState' = [step |-> "askName", name |-> EmptyStr,
                               amount |-> EmptyStr, paid |-> EmptyStr]
        /\ (/\ ev'.type = "transcript" /\ ev'.eng = "purchase"
            /\ purchaseState.step \in ActivePurchaseSteps
            /\ Test[ResetPattern, ev'.text])
            => purchaseState' = [step |-> "askSupplier", supplier |-> EmptyStr,
                                 amount |-> EmptyStr, paid |-> EmptyStr]
      ]_vars

\* reset has been said to a borrow form that was filled (its editable copy
\* is still there)
C18_Witness ==
    /\ ev.type = "transcript" /\ ev.eng = "borrow"
    /\ ev.text = <<"r","e","s","e","t">>
    /\ borrowState = [step |-> "askName", name |-> EmptyStr,
                      amount |-> EmptyStr, paid |-> EmptyStr]
    /\ borrowConfirmEdit # Null
    /\ borrowConfirmEdit[1].name = <<"R","a","v","i">>

\* C19: a cancel word heard at a step of a running flow leaves the engine
\* 'idle' with empty slots; and a reply with a reset or a cancel word is
\* handled as that command before the step looks at it: it is not stored in
\* a slot and it is not taken as an answer to the confirmation (no request,
\* no return to the amount, the edit buffer untouched).
C19_QuickCommandsFirst ==
    [][ /\ (/\ ev'.type = "transcript" /\ ev'.eng = "borrow"
            /\ borrowState.step \in ActiveBorrowSteps
            /\ Test[CancelPattern, ev'.text] /\ ~Test[ResetPattern, ev'.text])
            => borrowState' = [step |-> "idle", name |-> EmptyStr,
                               amount |-> EmptyStr, paid |-> EmptyStr]
        /\ (/\ ev'.type = "transcript" /\ ev'.eng = "purchase"
            /\ purchaseState.step \in ActivePurchaseSteps
            /\ Test[CancelPattern, ev'.text] /\ ~Test[ResetPattern, ev'.text])
            => purchaseState' = [step |-> "idle", supplier |-> EmptyStr,
                                 amount |-> EmptyStr, paid |-> EmptyStr]
        /\ (/\ ev'.type = "transcript" /\ ev'.eng = "borrow"
            /\ borrowState.step \in ActiveBorrowSteps
            /\ (Test[CancelPattern, ev'.text] \/ Test[ResetPattern, ev'.text]))
            => (/\ borrowState'.step \in {"idle", "askName"}
                /\ borrowState'.name = EmptyStr
                /\ borrowState'.amount = EmptyStr
                /\ borrowState'.paid = EmptyStr
                /\ response' \in {"Cancelled", "BorrowFormCleared"}
                /\ UNCHANGED << requests, borrowConfirmEdit >>)
        /\ (/\ ev'.type = "transcript" /\ ev'.eng = "purchase"
            /\ purchaseState.step \in ActivePurchaseSteps
            /\ (Test[CancelPattern, ev'.text] \/ Test[ResetPattern, ev'.text]))
            => (/\ purchaseState'.step \in {"idle", "askSupplier"}
                /\ purchaseState'.supplier = EmptyStr
                /\ purchaseState'.amount = EmptyStr
                /\ purchaseState'.paid = EmptyStr
                /\ response' \in {"Cancelled", "PurchaseFormCleared"}
                /\ UNCHANGED << requests, purchaseConfirmEdit >>)
      ]_vars

\* a sentence with an affirmative and a cancel word has been said to a
\* filled borrow form: the flow is cancelled and nothing was dispatched
C19_Witness ==
    /\ ev.type = "transcript" /\ ev.eng = "borrow"
    /\ ev.text = <<"o","k","a","y"," ","c","a","n","c","e","l">>
    /\ borrowState = [step |-> "idle", name |-> EmptyStr,
                      amount |-> EmptyStr, paid |-> EmptyStr]
    /\ borrowConfirmEdit # Null
    /\ borrowConfirmEdit[1].amount = <<"5","0","0">>
    /\ requests.borrow = << >>

\* a reply with no word of the four vocabularies of the confirm step
Unmatched(text) ==
    /\ ~Test[AffirmativePattern, text]
    /\ ~Test[NegativePattern, text]
    /\ ~Test[ResetPattern, text]
    /\ ~Test[CancelPattern, text]

\* C20: in 'confirm', a reply with no affirmative, negative, reset or cancel
\* word leaves the step, the slots and the edit buffer unchanged and
\* dispatches no request; only the instruction to say yes or no is given.
C20_UnmatchedConfirmReply ==
    [][ /\ (/\ ev'.type = "transcript" /\ ev'.eng = "borrow"
            /\ borrowState.step = "confirm"
            /\ Unmatched(ev'.text))
            => (/\ response' = "SayYesOrNo"
                /\ UNCHANGED << borrowState, borrowConfirmEdit, requests,
                                purchaseState, purchaseConfirmEdit, isSaving,
                                isProcessing, saveListeners, commands >>)
        /\ (/\ ev'.type = "transcript" /\ ev'.eng = "purchase"
            /\ purchaseState.step = "confirm"
            /\ Unmatched(ev'.text))
            => (/\ response' = "SayYesOrNo"
                /\ UNCHANGED << borrowState, borrowConfirmEdit, requests,
                                purchaseState, purchaseConfirmEdit, isSaving,
                                isProcessing, saveListeners, commands >>)
      ]_vars

\* a name has been said to a purchase form whose amount was typed over
C20_Witness ==
    /\ ev.type = "transcript" /\ ev.eng = "purchase"
    /\ ev.text = <<"R","a","v","i">>
    /\ purchaseState.step = "confirm"
    /\ response = "SayYesOrNo"
    /\ purchaseConfirmEdit # Null
    /\ purchaseConfirmEdit[1].amount = <<"0">>
    /\ purchaseState.amount = <<"5","0","0">>

\* C21: a transcript goes to one destination, chosen in this order: the
\* Purchase engine when it is not 'idle', else the Loan engine when it is
\* not 'idle', else the start of a purchase flow on a purchase keyword, else
\* the start of a borrow flow on a borrow keyword, else the generic
\* interpreter.  It never changes both engines and starts no flow while an
\* engine is not 'idle'.
C21_RouterOrder ==
    [][ ev'.type = "transcript" =>
        /\ (borrowState' = borrowState \/ purchaseState' = purchaseState)
        /\ IF purchaseState.step # "idle"
           THEN /\ borrowState' = borrowState
                /\ commands' = commands
                /\ purchaseState.step = "askSupplier" /\ ~PurchaseQuickCommand(ev'.text)
                       => purchaseState'.supplier = ev'.text
           ELSE IF borrowState.step # "idle"
           THEN /\ purchaseState' = purchaseState
                /\ commands' = commands
                /\ borrowState.step = "askName" /\ ~BorrowQuickCommand(ev'.text)
                       => borrowState'.name = ev'.text
           ELSE IF Test[PurchaseKeyword, ev'.text]
           THEN /\ purchaseState'.step = "askSupplier"
                /\ borrowState' = borrowState
                /\ commands' = commands
           ELSE IF Test[BorrowKeyword, ev'.text]
           THEN /\ borrowState'.step = "askName"
                /\ purchaseState' = purchaseState
                /\ commands' = commands
           ELSE /\ commands' = commands + 1
                /\ borrowState' = borrowState
                /\ purchaseState' = purchaseState
      ]_vars

\* a sentence with both keywords has started a purchase, with the Loan
\* engine left 'done' by an earlier flow
C21_Witness ==
    /\ ev.type = "transcript"
    /\ ev.text = <<"b","o","r","r","o","w"," ","t","o"," ","b","u","y">>
    /\ purchaseState.step = "askSupplier"
    /\ borrowState.step = "idle"
    /\ heard >= 2
    /\ response = "PurchaseAskSupplier"

\* the messages that are built from the error of a result (e.detail.error)
ReasonMessages == { "BorrowErrorReason" }

\* C24: when a commit of a flow that was not abandoned fails, the message
\* shown once the failure has been handled holds the reason that came with
\* the result, for loans and for purchases.
C24_FailureReasonShown ==
    [][ /\ (/\ ev'.type = "result" /\ ev'.eng = "borrow" /\ ~ev'.ok
            /\ borrowState.step \in {"confirm", "done"})
            => response' \in ReasonMessages
        /\ (/\ ev'.type = "result" /\ ev'.eng = "purchase" /\ ~ev'.ok
            /\ purchaseState.step \in {"confirm", "done"})
            => response' \in ReasonMessages
      ]_vars

\* C23: when the dispatch of a Save click is cancelled, the commit fails at
\* once: no request waits for a result, the click's result listener is off
\* the window, the pending marker is clear, and the engine is in 'confirm'
\* with its edit buffer as it was.
C23_CancelledDispatchFailsAtOnce ==
    [][ /\ (ev'.type = "saveClick" /\ ev'.eng = "borrow" /\ ~ev'.ok)
            => (/\ requests' = requests
                /\ saveListeners'.borrow = 0
                /\ ~isSaving'
                /\ borrowState' = borrowState /\ borrowState'.step = "confirm"
                /\ borrowConfirmEdit' = borrowConfirmEdit /\ borrowConfirmEdit' # Null
                /\ response' = "BorrowSaveFailed")
        /\ (ev'.type = "saveClick" /\ ev'.eng = "purchase" /\ ~ev'.ok)
            => (/\ requests' = requests
                /\ saveListeners'.purchase = 0
                /\ ~isSaving'
                /\ purchaseState' = purchaseState /\ purchaseState'.step = "confirm"
                /\ purchaseConfirmEdit' = purchaseConfirmEdit /\ purchaseConfirmEdit' # Null
                /\ response' = "PurchaseSaveFailed")
      ]_vars

\* the dispatch of a Save click on the borrow form has been cancelled
C23_Witness ==
    /\ ev.type = "saveClick" /\ ev.eng = "borrow" /\ ~ev.ok
    /\ borrowState.step = "confirm"
    /\ borrowConfirmEdit = << borrowState >>
    /\ response = "BorrowSaveFailed"
    /\ ~isSaving
    /\ requests.borrow = << >>

\* what lets the Save button of a form be clicked, as far as that form's own
\* engine is concerned: the engine is in 'confirm', the fields are valid and
\* no Save of this engine waits for its result
BorrowSaveReady ==
    /\ borrowState.step = "confirm"
    /\ ValidBorrowBuffer
    /\ saveListeners.borrow = 0
    /\ ~isProcessing

PurchaseSaveReady ==
    /\ purchaseState.step = "confirm"
    /\ ValidPurchaseBuffer
    /\ saveListeners.purchase = 0
    /\ ~isProcessing

\* C22: the two engines share nothing.  No step of one engine (a transcript
\* it gets, an edit, a click, a result) changes the step, the slots or the
\* edit buffer of the other or whether the other's Save can be clicked, and
\* a Save button that is ready as far as its own engine goes is enabled
\* (a pending Save of the other engine does not disable it).
C22_EnginesShareNothing ==
    [][ /\ ev'.eng = "borrow"
            => (/\ UNCHANGED << purchaseState, purchaseConfirmEdit >>
                /\ PurchaseSaveDisabled' = PurchaseSaveDisabled)
        /\ ev'.eng = "purchase"
            => (/\ UNCHANGED << borrowState, borrowConfirmEdit >>
                /\ BorrowSaveDisabled' = BorrowSaveDisabled)
        /\ BorrowSaveReady => ~BorrowSaveDisabled
        /\ PurchaseSaveReady => ~PurchaseSaveDisabled
      ]_vars

\* the requests of Save clicks that wait for their result
SaveRequests ==
    Cardinality({ k \in 1..Len(requests.borrow) : requests.borrow[k].cancelable })
    + Cardinality({ k \in 1..Len(requests.purchase) : requests.purchase[k].cancelable })

\* C25: there is no timeout: the pending marker a Save click has set stays
\* set, and the Save button disabled, as long as the result of that click's
\* request has not arrived; no other step clears it.
C25_PendingUntilOwnResult ==
    [][ (isSaving /\ SaveRequests > 0)
            => (isSaving' \/ SaveRequests' < SaveRequests)
      ]_vars

\* ---- the quantity parser on number words ----

\* the digit word and the tens word of a value
DigitWord(d) == CHOOSE w \in DOMAIN UnitWords : UnitWords[w] = d
TensWord(n) == CHOOSE w \in DOMAIN TensWords : TensWords[w] = 10 * n

\* two groups of words, said one after the other
Join(a, b) == IF a = << >> THEN b
              ELSE IF b = << >> THEN a
              ELSE a \o <<" ">> \o b

\* the words said for t thousands, h hundreds, n tens and u units
NumberPhrase(t, h, n, u) ==
    Join(Join(Join(IF t = 0 THEN << >> ELSE Join(DigitWord(t), ThousandWord),
                   IF h = 0 THEN << >> ELSE Join(DigitWord(h), HundredWord)),
              IF n = 0 THEN << >> ELSE TensWord(n)),
         IF u = 0 THEN << >> ELSE DigitWord(u))

PhraseDigits == {0, 1, 2, 5, 9}
PhraseTens == {0, 2, 9}

\* the parser returns the value of every number phrase of up to four digits
ParserExactOnPhrases ==
    /\ \A t \in PhraseDigits, h \in PhraseDigits, n \in PhraseTens, u \in PhraseDigits :
          t + h + n + u > 0 =>
              universalNumberParser(NumberPhrase(t, h, n, u))
                  = 1000 * t + 100 * h + 10 * n + u
    /\ universalNumberParser(DigitWord(0)) = 0
    /\ universalNumberParser(MalayalamThousandWord) = 1000
    /\ universalNumberParser(MalayalamHundredWord) = 100
    /\ universalNumberParser(Join(DigitWord(2), MalayalamThousandWord)) = 2000

\* the value of the replies of UtterancesNumbers made of number words only
WordValue(text) ==
    CASE text = NumberPhrase(2, 5, 0, 0) -> 2500
      [] text = MalayalamThousandWord -> 1000
      [] text = DigitWord(0) -> 0
      [] OTHER -> NoNumber

DigitRunValue(text) ==
    CASE text = <<"a","r","o","u","n","d"," ","7","5","0"," ","o","n","l","y">> -> 750
      [] text = <<"7"," ","o","r"," ","8","0","0">> -> 7
      [] text = <<"0"," ","o","r"," ","5">> -> 0
      [] OTHER -> NoNumber

\* C30: a reply that holds digits and no number word resolves to the value
\* of its first maximal run of digits (750 for "around 750 only"): at
\* 'askAmount' that value is stored as the amount when it is above 0 (zero
\* is refused there, later runs are not read), at 'askPaid' it is stored as
\* the paid amount.
C30_FirstDigitRun ==
    [][ /\ (/\ ev'.type = "transcript" /\ ev'.eng = "borrow"
            /\ DigitRunValue(ev'.text) # NoNumber)
            => (/\ universalNumberParser(ev'.text) = NoNumber
                /\ borrowState.step = "askAmount"
                    => IF DigitRunValue(ev'.text) > 0
                       THEN /\ borrowState'.step = "askPaid"
                            /\ Denotes(borrowState'.amount, DigitRunValue(ev'.text))
                       ELSE borrowState' = borrowState
                /\ borrowState.step = "askPaid"
                    => (/\ borrowState'.step = "confirm"
                        /\ Denotes(borrowState'.paid, DigitRunValue(ev'.text))))
        /\ (/\ ev'.type = "transcript" /\ ev'.eng = "purchase"
            /\ DigitRunValue(ev'.text) # NoNumber)
            => (/\ universalNumberParser(ev'.text) = NoNumber
                /\ purchaseState.step = "askAmount"
                    => IF DigitRunValue(ev'.text) > 0
                       THEN /\ purchaseState'.step = "askPaid"
                            /\ Denotes(purchaseState'.amount, DigitRunValue(ev'.text))
                       ELSE purchaseState' = purchaseState
                /\ purchaseState.step = "askPaid"
                    => (/\ purchaseState'.step = "confirm"
                        /\ Denotes(purchaseState'.paid, DigitRunValue(ev'.text))))
      ]_vars

\* "7 or 800" has been said for the amount of a purchase, "around 750 only"
\* for the amount paid
C30_Witness ==
    /\ ev.type = "transcript" /\ ev.eng = "purchase"
    /\ ev.text = <<"a","r","o","u","n","d"," ","7","5","0"," ","o","n","l","y">>
    /\ purchaseState.step = "confirm"
    /\ purchaseState.amount = <<"7">>
    /\ purchaseState.paid = <<"7","5","0">>

\* ---- errors of the speech capture ----

\* C28: an error of the speech capture (no-speech, audio-capture, network or
\* any other code) sets the message shown and the microphone error text to
\* the message of that error; the step, the slots and the edit buffer of
\* both engines, the saving flag, the result listeners and the requests
\* under way are as they were.
C28_SpeechErrorKeepsFlows ==
    [][ ev'.type = "speechError"
          => (/\ response' = SpeechErrorMessage(ev'.text)
              /\ micError' = SpeechErrorMessage(ev'.text)
              /\ UNCHANGED << borrowState, purchaseState, borrowConfirmEdit,
                              purchaseConfirmEdit, isSaving, isProcessing,
                              saveListeners, requests >>)
      ]_vars

\* a network error while the loan form is shown and its Save is under way
C28_Witness ==
    /\ ev.type = "speechError"
    /\ ev.text = <<"n","e","t","w","o","r","k">>
    /\ micError = "NetworkError"
    /\ borrowState.step = "confirm"
    /\ borrowConfirmEdit # Null
    /\ isSaving
    /\ Len(requests.borrow) = 1

\* ---- listening and speaking ----

\* C26: listening never starts while a prompt is being played: neither the
\* cooldown timer of autoListen nor the voice button starts the recognition
\* before the done callback of the prompt played has been called.
C26_NoListeningWhileSpeaking ==
    [][ (~isListening /\ isListening') => (speaking = << >> /\ ~isSpeaking) ]_vars

\* ---- the debounce delay ----

\* C27: a transcript is handled against the steps the engines are in when
\* it is handled, not those of the time it was captured: when a click or a
\* result notification has changed a step during the debounce delay, the
\* transcript is not handled as a reply to the step that is over.
C27_HandledAgainstCurrentState ==
    [][ \A p \in pending :
            (/\ p \notin pending' /\ ev'.type = "transcript"
             /\ ev.type \in {"editClick", "result"})
                => (/\ p.render.borrowState.step = borrowState.step
                    /\ p.render.purchaseState.step = purchaseState.step)
      ]_vars

(***************************************************************************)
(* The payload of a request and the two ways to commit.                    *)
(***************************************************************************)
\* the request a step has dispatched for an engine, if it has
Dispatched(eng) == Len(requests'[eng]) > Len(requests[eng])
LastRequest(eng) == requests'[eng][Len(requests'[eng])]

\* C32: every request dispatched, by a spoken yes or by a Save button,
\* carries the name or supplier, the amount and the paid amount of the edit
\* buffer as they are when it is dispatched, a blank paid amount as "0", and
\* its paid amount is never empty
C32_PayloadIsEditBuffer ==
    [][ /\ Dispatched("borrow") =>
              /\ borrowConfirmEdit # Null
              /\ LastRequest("borrow").name = borrowConfirmEdit[1].name
              /\ LastRequest("borrow").total = borrowConfirmEdit[1].amount
              /\ LastRequest("borrow").paid =
                     (IF borrowConfirmEdit[1].paid = EmptyStr THEN <<"0">>
                      ELSE borrowConfirmEdit[1].paid)
              /\ LastRequest("borrow").paid # EmptyStr
        /\ Dispatched("purchase") =>
              /\ purchaseConfirmEdit # Null
              /\ LastRequest("purchase").name = purchaseConfirmEdit[1].supplier
              /\ LastRequest("purchase").total = purchaseConfirmEdit[1].amount
              /\ LastRequest("purchase").paid =
                     (IF purchaseConfirmEdit[1].paid = EmptyStr THEN <<"0">>
                      ELSE purchaseConfirmEdit[1].paid)
              /\ LastRequest("purchase").paid # EmptyStr
      ]_vars

\* nothing of an engine is pending: no save is running and no request of the
\* engine waits for its result
NothingPending(eng) == ~isSaving /\ ~isProcessing /\ requests[eng] = << >>

\* C33: with a form shown and nothing pending, a spoken yes dispatches a
\* request exactly when the Save button of the form is enabled, and the
\* request is the one the Save button would send
C33_SpokenYesAsSaveButton ==
    [][ ev'.type = "transcript" /\ Test[AffirmativePattern, ev'.text] =>
          /\ ev'.eng = "borrow" /\ BorrowFormShown /\ NothingPending("borrow") =>
                /\ Dispatched("borrow") <=> ~BorrowSaveDisabled
                /\ Dispatched("borrow") =>
                      /\ LastRequest("borrow").name = Trim(borrowConfirmEdit[1].name)
                      /\ LastRequest("borrow").total = borrowConfirmEdit[1].amount
                      /\ LastRequest("borrow").paid = PaidOrZero(borrowConfirmEdit[1].paid)
          /\ ev'.eng = "purchase" /\ PurchaseFormShown /\ NothingPending("purchase") =>
                /\ Dispatched("purchase") <=> ~PurchaseSaveDisabled
                /\ Dispatched("purchase") =>
                      /\ LastRequest("purchase").name = Trim(purchaseConfirmEdit[1].supplier)
                      /\ LastRequest("purchase").total = purchaseConfirmEdit[1].amount
                      /\ LastRequest("purchase").paid = PaidOrZero(purchaseConfirmEdit[1].paid)
      ]_vars

\* C34: a reply to "Should I save?" that holds a word of the negative
\* vocabulary dispatches no request, whatever else it holds
C34_NegativeReplyNeverCommits ==
    [][ /\ ev'.type = "transcript"
        /\ Test[NegativePattern, ev'.text]
        /\ \/ ev'.eng = "borrow" /\ borrowState.step = "confirm"
           \/ ev'.eng = "purchase" /\ purchaseState.step = "confirm"
        => requests' = requests
      ]_vars

\* C35: at most one of the two engines is out of idle
C35_AtMostOneEngineActive ==
    borrowState.step = "idle" \/ purchaseState.step = "idle"

(***************************************************************************)
(* App.                                                                    *)
(***************************************************************************)
\* C31: App is loading from its mount until the first auth state callback
\* or getSession result, whichever comes first, and never again; once it is
\* not loading, at the root location it shows the Auth page (or the
\* fallback of its import) whenever there is no user, and the Index page
\* only when there is a user
C31_LoadingThenPage ==
    /\ app.loading
    /\ [][ /\ app.loading /\ ~app'.loading => ev'.type \in { "authState", "getSession" }
           /\ ev'.type \in { "authState", "getSession" } => ~app'.loading
           /\ ~app.loading => ~app'.loading
           /\ app'.loading => View' = "LoadingSpinner"
           /\ ~app'.loading /\ browser'.path = "/" =>
                 /\ View' \in { "Auth", "Index", "Fallback" }
                 /\ app'.user = "null" /\ "Auth" \in browser'.loaded => View' = "Auth"
                 /\ app'.user = "null" /\ "Auth" \notin browser'.loaded => View' = "Fallback"
                 /\ View' = "Index" => app'.user # "null"
         ]_vars

\* App has left loading by both results, a user is signed in and the Index
\* page is shown
C31_Witness ==
    /\ ~app.loading
    /\ auth.getSession = "fulfilled"
    /\ auth.events > 0
    /\ app.user # "null"
    /\ View = "Index"

(***************************************************************************)
(* IncomeExpense.                                                          *)
(***************************************************************************)
\* C36: at most one insert of a transaction is in flight at a time
C36_OneInsertInFlight ==
    Cardinality({ i \in DOMAIN supabase.calls : supabase.calls[i].op = "insert" }) <= 1

\* C37: the list of transactions holds no transaction twice
C37_NoTransactionTwice ==
    \A i, j \in DOMAIN incomeExpense.transactions :
        i # j => incomeExpense.transactions[i] # incomeExpense.transactions[j]

====
